---------------------------- MODULE Spec2Model ----------------------------
(***************************************************************************)
(* A model of the sudoku solver of src/src/main.rs: the grid of cells, the *)
(* parser, the candidate engine (assign_candidates with its two reduction  *)
(* rules), the consolidation engine, the status classifier, the step/solve *)
(* loop and the recursive guess search solve_with_guesses.                 *)
(*                                                                         *)
(* Rust arrays are indexed from 0 and TLA+ sequences from 1: the grid is a *)
(* function over 0..8 x 0..8 as in the source, a Vec or a [u8; 9] is a     *)
(* sequence over 1..n.  Option<T> is a sequence of length at most one.     *)
(* Puzzle.iteration only names the debug files write_iteration writes and  *)
(* is left out with them.                                                  *)
(***************************************************************************)
EXTENDS Integers, Sequences, FiniteSets, TLC

VARIABLES
    input,          \* main: the text read from stdin, a sequence of characters
    puzzle,         \* main: `puzzle`, the Puzzle parsed from input
    last_op,        \* the last Puzzle method called on `puzzle`
    stack,          \* the live calls of solve_with_guesses, innermost last
    trial_puzzle,   \* main: `trial_puzzle`, the Option<Puzzle> the search returned
    pc,             \* main's position, or "test" for calls made one by one
    args,           \* the arguments of a function called on its own
    ret,            \* the value the last call returned, if it returns one
    calls           \* the number of Puzzle methods a test has called

vars == <<input, puzzle, last_op, stack, trial_puzzle, pc, args, ret, calls>>

---------------------------------------------------------------------------
(* Option<T> *)
None == <<>>
Some(x) == <<x>>
IsSome(o) == Len(o) > 0
Unwrap(o) == o[1]

Idx == 0..8

\* `body` of the value of v: a statement that ends before the next begins
Then(v, body(_)) == CHOOSE y \in {body(x) : x \in {v}} : TRUE

\* a [T; 9] built entry by entry, its entries 0..8 as in the source
Array9(entry(_)) ==
    (0 :> entry(0)) @@ (1 :> entry(1)) @@ (2 :> entry(2)) @@ (3 :> entry(3))
        @@ (4 :> entry(4)) @@ (5 :> entry(5)) @@ (6 :> entry(6))
        @@ (7 :> entry(7)) @@ (8 :> entry(8))

\* a Vec or array of 9 entries as a sequence, entry k of the source at k + 1
Seq9(entry(_)) ==
    <<entry(1), entry(2), entry(3), entry(4), entry(5), entry(6), entry(7),
      entry(8), entry(9)>>

\* a [T; 3] built entry by entry
Array3(entry(_)) == (0 :> entry(0)) @@ (1 :> entry(1)) @@ (2 :> entry(2))

\* [0; 9]: a candidate array with no candidate
NoCandidates == <<0, 0, 0, 0, 0, 0, 0, 0, 0>>

\* Cell { number: None, given: false, candidates: [0; 9] }
BlankCell == [number |-> None, given |-> FALSE, candidates |-> NoCandidates]

RangeOf(s) == {s[i] : i \in 1..Len(s)}

Contains(s, x) == \E i \in 1..Len(s) : s[i] = x

RECURSIVE InsertSorted(_, _)
InsertSorted(s, x) ==
    IF s = <<>> THEN <<x>>
    ELSE IF x <= Head(s) THEN <<x>> \o s
    ELSE <<Head(s)>> \o InsertSorted(Tail(s), x)

\* Vec::sort
RECURSIVE SortVec(_)
SortVec(s) ==
    IF s = <<>> THEN <<>> ELSE InsertSorted(SortVec(Tail(s)), Head(s))

\* the elements of a HashSet collected into a Vec and sorted
RECURSIVE SortedVecOfSet(_)
SortedVecOfSet(S) ==
    IF S = {} THEN <<>>
    ELSE LET m == CHOOSE x \in S : \A y \in S : x <= y
         IN  <<m>> \o SortedVecOfSet(S \ {m})

\* a Vec of at most 9 entries copied into the front of a [u8; 9] of zeros
ArrayOfVec(v) == Seq9(LAMBDA i : IF i <= Len(v) THEN v[i] ELSE 0)

\* Cell::candidates_as_vec
candidates_as_vec(cell) == SelectSeq(cell.candidates, LAMBDA x : x > 0)

\* Cell::set_candidates
set_candidates(cell, candidates) ==
    [cell EXCEPT !.candidates = ArrayOfVec(SortVec(candidates))]

\* Cell::remove_candidate, the bool it returns
remove_candidate_found(cell, number) == Contains(candidates_as_vec(cell), number)

\* Cell::remove_candidate, the cell it leaves
remove_candidate(cell, number) ==
    LET candidates == candidates_as_vec(cell)
    IN  IF Contains(candidates, number)
        THEN LET pos == CHOOSE i \in 1..Len(candidates) :
                            /\ candidates[i] = number
                            /\ \A j \in 1..(i - 1) : candidates[j] # number
             IN  set_candidates(cell, SubSeq(candidates, 1, pos - 1)
                                        \o SubSeq(candidates, pos + 1, Len(candidates)))
        ELSE cell

---------------------------------------------------------------------------
(* Grid addressing *)

\* block_num_for_row_col
block_num_for_row_col(row, col) == (row \div 3) * 3 + (col \div 3)

\* grid_origin_offset_for_block
grid_origin_offset_for_block(b) == <<(b \div 3) * 3, (b % 3) * 3>>

\* Puzzle::block: the 3 x 3 cells of block b, addressed [i][j] with i, j in 0..2
block(grid, b) ==
    LET origin_x == b % 3
        origin_y == (b - origin_x) \div 3
    IN  Array3(LAMBDA i : Array3(LAMBDA j :
            grid[origin_y * 3 + i][origin_x * 3 + j]))

\* Puzzle::block_as_slice: the 9 cells of block b, row by row
block_as_slice(grid, b) ==
    LET origin_x == b % 3
        origin_y == (b - origin_x) \div 3
    IN  Seq9(LAMBDA k :
            grid[origin_y * 3 + ((k - 1) \div 3)][origin_x * 3 + ((k - 1) % 3)])

\* Puzzle::row
row(grid, r) == Seq9(LAMBDA k : grid[r][k - 1])

\* Puzzle::column
column(grid, c) == Seq9(LAMBDA k : grid[k - 1][c])

\* Puzzle::numbers_in_block
numbers_in_block(grid, b) ==
    LET blk == block(grid, b)
    IN  {Unwrap(blk[i][j].number) : <<i, j>> \in
            {p \in (0..2) \X (0..2) : IsSome(blk[p[1]][p[2]].number)}}

\* Puzzle::numbers_in_row
numbers_in_row(grid, r) ==
    {Unwrap(grid[r][i].number) : i \in {k \in Idx : IsSome(grid[r][k].number)}}

\* a faulty numbers_in_column that finds no number: C7 must fail with it
numbers_in_no_column(grid, c) == {}

\* Puzzle::numbers_in_column
numbers_in_column(grid, c) ==
    {Unwrap(grid[i][c].number) : i \in {k \in Idx : IsSome(grid[k][c].number)}}

\* a faulty update_block that leaves the candidates of the cell: C5 must fail
\* with it
update_block_number_only(grid, block_num, r, c, number) ==
    LET origin_row == block_num \div 3
        origin_col == block_num % 3
    IN  [grid EXCEPT ![origin_row * 3 + r][origin_col * 3 + c].number =
            Some(number)]

\* Puzzle::update_block
update_block(grid, block_num, r, c, number) ==
    LET origin_row == block_num \div 3
        origin_col == block_num % 3
    IN  [grid EXCEPT ![origin_row * 3 + r][origin_col * 3 + c] =
            [@ EXCEPT !.number = Some(number), !.candidates = NoCandidates]]

\* a faulty set_number that takes the column for the row and the row for the
\* column: C26 must fail with it
set_number_transposed(grid, r, c, number) ==
    [grid EXCEPT ![c][r] =
        [@ EXCEPT !.number = Some(number), !.candidates = NoCandidates]]

\* Puzzle::set_number
set_number(grid, r, c, number) ==
    [grid EXCEPT ![r][c] =
        [@ EXCEPT !.number = Some(number), !.candidates = NoCandidates]]

\* Puzzle::update_block_candidates, the bool it returns
update_block_candidates_modified(grid, block_num, r, c, candidates) ==
    LET origin_row == block_num \div 3
        origin_col == block_num % 3
    IN  grid[origin_row * 3 + r][origin_col * 3 + c].candidates # candidates

\* Puzzle::update_block_candidates, the grid it leaves
update_block_candidates(grid, block_num, r, c, candidates) ==
    LET origin_row == block_num \div 3
        origin_col == block_num % 3
    IN  IF grid[origin_row * 3 + r][origin_col * 3 + c].candidates # candidates
        THEN [grid EXCEPT ![origin_row * 3 + r][origin_col * 3 + c].candidates =
                candidates]
        ELSE grid

---------------------------------------------------------------------------
(* Parsing.  A text is a sequence of characters, each a string of length 1. *)

\* char::is_whitespace, for the characters of the texts of this model
IsWhitespace(ch) == ch \in {" ", "\n", "\t", "\r"}

\* str::trim
RECURSIVE trim_start(_)
trim_start(s) ==
    IF s # <<>> /\ IsWhitespace(Head(s)) THEN trim_start(Tail(s)) ELSE s

RECURSIVE trim_end(_)
trim_end(s) ==
    IF s # <<>> /\ IsWhitespace(s[Len(s)])
    THEN trim_end(SubSeq(s, 1, Len(s) - 1)) ELSE s

trim(s) == trim_end(trim_start(s))

\* str::split("\n"), collected
RECURSIVE split_lines(_)
split_lines(s) ==
    IF Contains(s, "\n")
    THEN LET k == CHOOSE i \in 1..Len(s) :
                      s[i] = "\n" /\ \A j \in 1..(i - 1) : s[j] # "\n"
         IN  <<SubSeq(s, 1, k - 1)>> \o split_lines(SubSeq(s, k + 1, Len(s)))
    ELSE <<s>>

\* char::to_digit(10)
to_digit(ch) ==
    CASE ch = "0" -> Some(0) [] ch = "1" -> Some(1) [] ch = "2" -> Some(2)
      [] ch = "3" -> Some(3) [] ch = "4" -> Some(4) [] ch = "5" -> Some(5)
      [] ch = "6" -> Some(6) [] ch = "7" -> Some(7) [] ch = "8" -> Some(8)
      [] ch = "9" -> Some(9) [] OTHER -> None

\* Puzzle::parse, lines 123-141: the lines of the trimmed text, each trimmed,
\* in the order of enumerate() (a line of length 0 keeps its index i)
RECURSIVE trim_each(_)
trim_each(lines) ==
    IF lines = <<>> THEN <<>> ELSE <<trim(Head(lines))>> \o trim_each(Tail(lines))

parse_lines(text) == trim_each(split_lines(trim(text)))

\* Puzzle::parse, lines 132-136: grid[i][j] is written for a digit at
\* character j of line i; an index of 9 or more panics
parse_panics(text) ==
    LET lines == parse_lines(text)
    IN  \E i \in 1..Len(lines) : \E j \in 1..Len(lines[i]) :
            IsSome(to_digit(lines[i][j])) /\ (i > 9 \/ j > 9)

\* Puzzle::parse, the grid of the Puzzle it returns when it does not panic
parse(text) ==
    LET lines == parse_lines(text)
    IN  Array9(LAMBDA r : Array9(LAMBDA c :
            IF /\ r + 1 <= Len(lines)
               /\ c + 1 <= Len(lines[r + 1])
               /\ IsSome(to_digit(lines[r + 1][c + 1]))
            THEN [number |-> to_digit(lines[r + 1][c + 1]),
                  given |-> TRUE,
                  candidates |-> NoCandidates]
            ELSE BlankCell))

---------------------------------------------------------------------------
(* The candidate engine *)

\* a faulty reduce_candidates_by_uniqueness that pins a Vec counted once as
\* well (count == candidate.len() alone): C8 must fail with it
reduce_candidates_pinning_singles(candidates) ==
    LET count(c) == Cardinality({i \in 1..9 : candidates[i] = c})
        pinned == {candidates[i] : i \in
                     {k \in 1..9 : count(candidates[k]) = Len(candidates[k])}}
        reduced(i) == RangeOf(candidates[i]) \
                        UNION {RangeOf(p) : p \in {q \in pinned : q # candidates[i]}}
    IN  Seq9(LAMBDA i : SortedVecOfSet(reduced(i)))

\* a faulty reduce_candidates_by_uniqueness that also pins the union of any
\* Vecs that hold together as many numbers as they are: C21 must fail with it
reduce_candidates_pinning_supersets(candidates) ==
    LET held(F) == UNION {RangeOf(candidates[i]) : i \in F}
        families == {F \in SUBSET (1..9) :
                        /\ Cardinality(F) >= 2
                        /\ \A i \in F : candidates[i] # <<>>
                        /\ Cardinality(held(F)) = Cardinality(F)}
        reduced(i) == RangeOf(candidates[i]) \
                        UNION {held(F) : F \in {G \in families : i \notin G}}
    IN  Seq9(LAMBDA i : SortedVecOfSet(reduced(i)))

\* reduce_candidates_by_uniqueness: `candidates` holds the 9 candidate Vecs of
\* one row, column or block.  The HashBag counts equal Vecs; a Vec counted
\* more than once and as often as it is long is pinned; the numbers of every
\* pinned Vec leave every entry that is not that Vec.
reduce_candidates_by_uniqueness(candidates) ==
    LET count(c) == Cardinality({i \in 1..9 : candidates[i] = c})
        pinned == {candidates[i] : i \in
                     {k \in 1..9 : /\ count(candidates[k]) > 1
                                   /\ count(candidates[k]) = Len(candidates[k])}}
        reduced(i) == RangeOf(candidates[i]) \
                        UNION {RangeOf(p) : p \in {q \in pinned : q # candidates[i]}}
    IN  Seq9(LAMBDA i : SortedVecOfSet(reduced(i)))

\* reduce_candidates_with_sara_flex, lines 413-425, 435-448 and 459-469: the
\* [u8; 9] arrays the reduction leaves for the 9 cells of one group
reduced_candidates(cells) ==
    LET reduced == reduce_candidates_by_uniqueness(
                       Seq9(LAMBDA k : candidates_as_vec(cells[k])))
    IN  Seq9(LAMBDA j : ArrayOfVec(reduced[j]))

\* the number of cells whose candidates differ between two grids
Changed(old, new) ==
    Cardinality({p \in Idx \X Idx :
                    old[p[1]][p[2]].candidates # new[p[1]][p[2]].candidates})

\* reduce_candidates_with_sara_flex, the loop over the rows: iteration i reads
\* and writes the cells of row i only
sara_flex_rows(grid) ==
    Array9(LAMBDA i :
        LET reduced == reduced_candidates(row(grid, i))
        IN  Array9(LAMBDA j : [grid[i][j] EXCEPT !.candidates = reduced[j + 1]]))

\* reduce_candidates_with_sara_flex, the loop over the columns: iteration i
\* reads and writes the cells of column i only
sara_flex_columns(grid) ==
    LET reduced == Array9(LAMBDA i : reduced_candidates(column(grid, i)))
    IN  Array9(LAMBDA j : Array9(LAMBDA i :
            [grid[j][i] EXCEPT !.candidates = reduced[i][j + 1]]))

\* reduce_candidates_with_sara_flex, the loop over the blocks: iteration
\* block_num reads and writes the cells of that block only
\* (update_block_candidates writes cell j of the slice at row j / 3, col j % 3)
sara_flex_blocks(grid) ==
    LET reduced == Array9(LAMBDA b : reduced_candidates(block_as_slice(grid, b)))
    IN  Array9(LAMBDA r : Array9(LAMBDA c :
            [grid[r][c] EXCEPT !.candidates =
                reduced[block_num_for_row_col(r, c)][(r % 3) * 3 + (c % 3) + 1]]))

\* Puzzle::reduce_candidates_with_sara_flex: rows, then columns, then blocks,
\* each on the grid the loop before it left; `reductions` counts the writes
reduce_candidates_with_sara_flex(grid) ==
    Then(sara_flex_rows(grid), LAMBDA rows :
    Then(sara_flex_columns(rows), LAMBDA columns :
    Then(sara_flex_blocks(columns), LAMBDA blocks :
        [grid |-> blocks,
         reductions |-> Changed(grid, rows) + Changed(rows, columns)
                            + Changed(columns, blocks)])))

\* WaterCannonSights
SightsRow(r) == <<"Row", r>>
SightsColumn(c) == <<"Column", c>>
SightsNone == <<"None">>

\* a faulty line_up_water_cannon that takes any number of sights: C9 must
\* fail with it
line_up_any_number_of_sights(blk, number) ==
    LET cells == <<<<0, 0>>, <<0, 1>>, <<0, 2>>, <<1, 0>>, <<1, 1>>, <<1, 2>>,
                   <<2, 0>>, <<2, 1>>, <<2, 2>>>>
        sights == SelectSeq(cells, LAMBDA p :
                      Contains(candidates_as_vec(blk[p[1]][p[2]]), number))
    IN  IF Len(sights) = 0 THEN SightsNone
        ELSE IF \A k \in 2..Len(sights) : sights[k][1] = sights[1][1]
        THEN SightsRow(sights[1][1])
        ELSE IF \A k \in 2..Len(sights) : sights[k][2] = sights[1][2]
        THEN SightsColumn(sights[1][2])
        ELSE SightsNone

\* line_up_water_cannon: blk is a 3 x 3 block of cells
line_up_water_cannon(blk, number) ==
    LET cells == <<<<0, 0>>, <<0, 1>>, <<0, 2>>, <<1, 0>>, <<1, 1>>, <<1, 2>>,
                   <<2, 0>>, <<2, 1>>, <<2, 2>>>>
        sights == SelectSeq(cells, LAMBDA p :
                      Contains(candidates_as_vec(blk[p[1]][p[2]]), number))
    IN  IF Len(sights) # 2 /\ Len(sights) # 3 THEN SightsNone
        ELSE LET row_offset == sights[1][1]
                 column_offset == sights[1][2]
                 row_aligned == \A k \in 2..Len(sights) : sights[k][1] = row_offset
                 column_aligned ==
                     \A k \in 2..Len(sights) : sights[k][2] = column_offset
             IN  IF row_aligned THEN SightsRow(row_offset)
                 ELSE IF column_aligned THEN SightsColumn(column_offset)
                 ELSE SightsNone

\* reduce_candidates_using_water_cannon, lines 487-524: one block b (blk is
\* the copy of it taken at line 484) and one number.  Every shot is at another
\* cell, so the shots of one sight are independent of each other.
water_cannon_shot(st, blk, b, number) ==
    LET sights == line_up_water_cannon(blk, number)
        grid == st.grid
    IN  IF sights[1] = "Row" THEN
            LET origin_row == grid_origin_offset_for_block(b)[1]
                r == origin_row + sights[2]
                hit == {i \in Idx : /\ i \div 3 # b % 3
                                    /\ remove_candidate_found(grid[r][i], number)}
            IN  [grid |-> [grid EXCEPT ![r] = Array9(LAMBDA i :
                              IF i \div 3 = b % 3 THEN grid[r][i]
                              ELSE remove_candidate(grid[r][i], number))],
                 reductions |-> st.reductions + Cardinality(hit)]
        ELSE IF sights[1] = "Column" THEN
            LET origin_col == grid_origin_offset_for_block(b)[2]
                c == origin_col + sights[2]
                hit == {i \in Idx : /\ i \div 3 # b \div 3
                                    /\ remove_candidate_found(grid[i][c], number)}
            IN  [grid |-> Array9(LAMBDA i :
                              IF i \div 3 = b \div 3 THEN grid[i]
                              ELSE [grid[i] EXCEPT ![c] =
                                        remove_candidate(grid[i][c], number)]),
                 reductions |-> st.reductions + Cardinality(hit)]
        ELSE st

\* reduce_candidates_using_water_cannon, the loop `for number in 1..10`
RECURSIVE water_cannon_numbers(_, _, _, _)
water_cannon_numbers(st, blk, b, number) ==
    IF number > 9 THEN st
    ELSE Then(water_cannon_shot(st, blk, b, number),
              LAMBDA next : water_cannon_numbers(next, blk, b, number + 1))

\* reduce_candidates_using_water_cannon, the loop `for b in 0..9`
RECURSIVE water_cannon_blocks(_, _)
water_cannon_blocks(st, b) ==
    IF b > 8 THEN st
    ELSE Then(water_cannon_numbers(st, block(st.grid, b), b, 1),
              LAMBDA next : water_cannon_blocks(next, b + 1))

\* Puzzle::reduce_candidates_using_water_cannon
reduce_candidates_using_water_cannon(grid) ==
    water_cannon_blocks([grid |-> grid, reductions |-> 0], 0)

\* a faulty peer_candidates that gives candidates to the cells that have a
\* number as well: C14 must fail with it
peer_candidates_of_every_cell(grid) ==
    Array9(LAMBDA r : Array9(LAMBDA c :
        LET blk == (c \div 3) + (r \div 3) * 3
            cset == (((1..9) \ numbers_in_block(grid, blk))
                       \ numbers_in_row(grid, r)) \ numbers_in_column(grid, c)
        IN  [grid[r][c] EXCEPT !.candidates = ArrayOfVec(SortedVecOfSet(cset))]))

\* assign_candidates, lines 321-380: every cell without a number gets the
\* numbers 1..9 that are in neither its block, its row nor its column.  The
\* loop reads numbers only and writes candidates only.
peer_candidates(grid) ==
    Array9(LAMBDA r : Array9(LAMBDA c :
        IF IsSome(grid[r][c].number) THEN grid[r][c]
        ELSE LET blk == (c \div 3) + (r \div 3) * 3
                 cset == (((1..9) \ numbers_in_block(grid, blk))
                            \ numbers_in_row(grid, r)) \ numbers_in_column(grid, c)
             IN  [grid[r][c] EXCEPT !.candidates =
                     ArrayOfVec(SortedVecOfSet(cset))]))

\* assign_candidates, lines 382-392: both reductions, until a round of them
\* reduces nothing
RECURSIVE reduce_until_stable(_)
reduce_until_stable(grid) ==
    Then(reduce_candidates_with_sara_flex(grid), LAMBDA flex :
    Then(reduce_candidates_using_water_cannon(flex.grid), LAMBDA hit :
        IF flex.reductions + hit.reductions = 0 THEN hit.grid
        ELSE reduce_until_stable(hit.grid)))

\* a faulty assign_candidates that goes once through the two reductions, from
\* the candidates the grid has if it has any: C6 must fail with it
assign_candidates_one_round(grid) ==
    LET fresh == \A r \in Idx : \A c \in Idx :
                     candidates_as_vec(grid[r][c]) = <<>>
    IN  Then(IF fresh THEN peer_candidates(grid) ELSE grid, LAMBDA start :
        Then(reduce_candidates_with_sara_flex(start), LAMBDA flex :
            reduce_candidates_using_water_cannon(flex.grid).grid))

\* Puzzle::assign_candidates
assign_candidates(grid) ==
    Then(peer_candidates(grid), LAMBDA peers : reduce_until_stable(peers))

---------------------------------------------------------------------------
(* The status classifier *)

\* PuzzleStatus and IllDefinedReason
Solved == <<"Solved">>
Unsolved == <<"Unsolved">>
NoPossibleSolution(r, c) == <<"IllDefined", "NoPossibleSolution", r, c>>
NumberRepeatsInRow(n, i) == <<"IllDefined", "NumberRepeatsInRow", n, i>>
NumberRepeatsInColumn(n, i) == <<"IllDefined", "NumberRepeatsInColumn", n, i>>
NumberRepeatsInBlock(n, b) == <<"IllDefined", "NumberRepeatsInBlock", n, b>>
IsIllDefined(s) == s[1] = "IllDefined"

\* the first pair of S in the order of two nested loops (outer index first)
FirstPair(S) ==
    CHOOSE p \in S : \A q \in S : p[1] < q[1] \/ (p[1] = q[1] /\ p[2] <= q[2])

\* status, lines 177-188: how many of the 9 cells hold the number `needle`
count_number(cells, needle) ==
    Cardinality({k \in 1..9 : cells[k].number = Some(needle)})

\* a faulty status that looks at the columns before it looks at the rows: C11
\* must fail with it
status_columns_first(grid) ==
    LET unassignable == {p \in Idx \X Idx :
                            /\ ~IsSome(grid[p[1]][p[2]].number)
                            /\ Len(candidates_as_vec(grid[p[1]][p[2]])) = 0}
        rows == {p \in Idx \X (1..9) : count_number(row(grid, p[1]), p[2]) > 1}
        cols == {p \in Idx \X (1..9) : count_number(column(grid, p[1]), p[2]) > 1}
        blocks == {p \in Idx \X (1..9) :
                      count_number(block_as_slice(grid, p[1]), p[2]) > 1}
    IN  IF unassignable # {} THEN
            LET p == FirstPair(unassignable) IN NoPossibleSolution(p[1], p[2])
        ELSE IF cols # {} THEN
            LET p == FirstPair(cols) IN NumberRepeatsInColumn(p[2], p[1])
        ELSE IF rows # {} THEN
            LET p == FirstPair(rows) IN NumberRepeatsInRow(p[2], p[1])
        ELSE IF blocks # {} THEN
            LET p == FirstPair(blocks) IN NumberRepeatsInBlock(p[2], p[1])
        ELSE IF \E p \in Idx \X Idx : ~IsSome(grid[p[1]][p[2]].number)
            THEN Unsolved
        ELSE Solved

\* Puzzle::status
status(grid) ==
    LET unassignable == {p \in Idx \X Idx :
                            /\ ~IsSome(grid[p[1]][p[2]].number)
                            /\ Len(candidates_as_vec(grid[p[1]][p[2]])) = 0}
        rows == {p \in Idx \X (1..9) : count_number(row(grid, p[1]), p[2]) > 1}
        cols == {p \in Idx \X (1..9) : count_number(column(grid, p[1]), p[2]) > 1}
        blocks == {p \in Idx \X (1..9) :
                      count_number(block_as_slice(grid, p[1]), p[2]) > 1}
    IN  IF unassignable # {} THEN
            LET p == FirstPair(unassignable) IN NoPossibleSolution(p[1], p[2])
        ELSE IF rows # {} THEN
            LET p == FirstPair(rows) IN NumberRepeatsInRow(p[2], p[1])
        ELSE IF cols # {} THEN
            LET p == FirstPair(cols) IN NumberRepeatsInColumn(p[2], p[1])
        ELSE IF blocks # {} THEN
            LET p == FirstPair(blocks) IN NumberRepeatsInBlock(p[2], p[1])
        ELSE IF \E p \in Idx \X Idx : ~IsSome(grid[p[1]][p[2]].number)
            THEN Unsolved
        ELSE Solved

---------------------------------------------------------------------------
(* The consolidation engine *)

\* CellAssignment
CellAssignment(number, b, r, c) ==
    [number |-> number, block |-> b, row |-> r, col |-> c]

\* Consolidation
SingleCandidateForCell(a) == <<"SingleCandidateForCell", a>>
OnlyOnePossibleCandidateForBlock(a) == <<"OnlyOnePossibleCandidateForBlock", a>>
OnlyOnePossibleCandidateForRow(a) == <<"OnlyOnePossibleCandidateForRow", a>>
OnlyOnePossibleCandidateForColumn(a) == <<"OnlyOnePossibleCandidateForColumn", a>>

\* the order of `for block_num in 0..9 { for row in 0..3 { for col in 0..3`:
\* <<block, row in block, col in block>>
BlockScan ==
    [k \in 1..81 |-> <<(k - 1) \div 9, ((k - 1) % 9) \div 3, (k - 1) % 3>>]
        \o <<>>

\* a faulty RowScan that goes from the last cell to the first: C18 must fail
\* with it
RowScanFromTheEnd == [k \in 1..81 |-> <<(81 - k) \div 9, (81 - k) % 9>>] \o <<>>

\* the order of `for row_num in 0..9 { for col_num in 0..9`: <<row, col>>
RowScan == [k \in 1..81 |-> <<(k - 1) \div 9, (k - 1) % 9>>] \o <<>>

\* the order of `for col_num in 0..9 { for row_num in 0..9`: <<row, col>>
ColumnScan == [k \in 1..81 |-> <<(k - 1) % 9, (k - 1) \div 9>>] \o <<>>

\* the cell of the grid at row r, col c of block b
BlockCell(grid, b, r, c) == grid[(b \div 3) * 3 + r][(b % 3) * 3 + c]

\* count_candidates_in_block_for / _in_row / _in_col, the loops over the 9
\* cells: the entries equal to `needle` in the arrays of the cells with no number
count_candidates(cells, needle) ==
    Cardinality({p \in (1..9) \X (1..9) :
                    /\ ~IsSome(cells[p[1]].number)
                    /\ cells[p[1]].candidates[p[2]] = needle})

\* Puzzle::count_candidates_in_block_for
count_candidates_in_block_for(grid, block_num, needle) ==
    count_candidates(block_as_slice(grid, block_num), needle)

\* Puzzle::count_candidates_in_row
count_candidates_in_row(grid, row_num, needle) ==
    count_candidates(row(grid, row_num), needle)

\* a faulty count_candidates_in_col that counts nothing: C19 must fail with it
count_no_candidates_in_col(grid, col_num, needle) == 0

\* Puzzle::count_candidates_in_col
count_candidates_in_col(grid, col_num, needle) ==
    count_candidates(column(grid, col_num), needle)

\* a faulty single_candidates that finds no cell: C12 must fail with it
no_single_candidates(grid) == SelectSeq(BlockScan, LAMBDA p : FALSE)

\* consolidate_candidates, lines 536-561: every cell with one candidate
single_candidates(grid) ==
    SelectSeq(BlockScan, LAMBDA p :
        Len(candidates_as_vec(BlockCell(grid, p[1], p[2], p[3]))) = 1)

\* the first candidate of a Vec, in its order, that `only` holds of
first_candidate(candidates, only(_)) ==
    candidates[CHOOSE i \in 1..Len(candidates) :
                  only(candidates[i]) /\ \A j \in 1..(i - 1) : ~only(candidates[j])]

\* a faulty update_singles that stops after the first cell: C17 must fail with
\* it
update_first_single(st, singles, k) ==
    LET p == singles[k]
        candidates == candidates_as_vec(BlockCell(st.grid, p[1], p[2], p[3]))
    IN  [grid |-> update_block(st.grid, p[1], p[2], p[3], candidates[1]),
         progress |-> Append(st.progress, SingleCandidateForCell(
                          CellAssignment(candidates[1], p[1], p[2], p[3])))]

\* consolidate_candidates, lines 536-556: from position k of `singles` on,
\* update_block with the one candidate of the cell and push its record
RECURSIVE update_singles(_, _, _)
update_singles(st, singles, k) ==
    IF k > Len(singles) THEN st
    ELSE LET p == singles[k]
             candidates == candidates_as_vec(BlockCell(st.grid, p[1], p[2], p[3]))
             updated == SingleCandidateForCell(
                            CellAssignment(candidates[1], p[1], p[2], p[3]))
         IN  Then([grid |-> update_block(st.grid, p[1], p[2], p[3], candidates[1]),
                   progress |-> Append(st.progress, updated)],
                  LAMBDA next : update_singles(next, singles, k + 1))

\* Puzzle::consolidate_candidates: the grid it leaves and the Vec it returns
consolidate_candidates(grid) ==
    LET singles == single_candidates(grid)
        in_block(p, n) == count_candidates_in_block_for(grid, p[1], n) = 1
        in_row(p, n) == count_candidates_in_row(grid, p[1], n) = 1
        in_col(p, n) == count_candidates_in_col(grid, p[2], n) = 1
        block_hits == SelectSeq(BlockScan, LAMBDA p :
            \E n \in RangeOf(candidates_as_vec(BlockCell(grid, p[1], p[2], p[3]))) :
                in_block(p, n))
        row_hits == SelectSeq(RowScan, LAMBDA p :
            \E n \in RangeOf(candidates_as_vec(grid[p[1]][p[2]])) : in_row(p, n))
        col_hits == SelectSeq(ColumnScan, LAMBDA p :
            \E n \in RangeOf(candidates_as_vec(grid[p[1]][p[2]])) : in_col(p, n))
    IN  IF Len(singles) > 0 THEN
            update_singles([grid |-> grid, progress |-> <<>>], singles, 1)
        ELSE IF Len(block_hits) > 0 THEN
            LET p == block_hits[1]
                candidate == first_candidate(
                    candidates_as_vec(BlockCell(grid, p[1], p[2], p[3])),
                    LAMBDA n : in_block(p, n))
            IN  [grid |-> update_block(grid, p[1], p[2], p[3], candidate),
                 progress |-> <<OnlyOnePossibleCandidateForBlock(
                     CellAssignment(candidate, p[1], p[2], p[3]))>>]
        ELSE IF Len(row_hits) > 0 THEN
            LET p == row_hits[1]
                candidate == first_candidate(candidates_as_vec(grid[p[1]][p[2]]),
                                             LAMBDA n : in_row(p, n))
            IN  [grid |-> set_number(grid, p[1], p[2], candidate),
                 progress |-> <<OnlyOnePossibleCandidateForRow(
                     CellAssignment(candidate, block_num_for_row_col(p[1], p[2]),
                                    p[1], p[2]))>>]
        ELSE IF Len(col_hits) > 0 THEN
            LET p == col_hits[1]
                candidate == first_candidate(candidates_as_vec(grid[p[1]][p[2]]),
                                             LAMBDA n : in_col(p, n))
            IN  [grid |-> set_number(grid, p[1], p[2], candidate),
                 progress |-> <<OnlyOnePossibleCandidateForColumn(
                     CellAssignment(candidate, block_num_for_row_col(p[1], p[2]),
                                    p[1], p[2]))>>]
        ELSE [grid |-> grid, progress |-> <<>>]

---------------------------------------------------------------------------
(* The step and solve loop.  A Puzzle is [grid, last_consolidation]. *)

\* Puzzle::step: the puzzle it leaves; the Vec it returns is a clone of
\* last_consolidation
step(p) ==
    Then(assign_candidates(p.grid), LAMBDA assigned :
    Then(consolidate_candidates(assigned), LAMBDA consolidated :
        [grid |-> consolidated.grid,
         last_consolidation |-> consolidated.progress]))

\* a faulty solve_breaks that stops on an empty progress only: C13 must fail
\* with it
breaks_when_stalled(stepped) == Len(stepped.last_consolidation) = 0

\* a faulty solve_breaks that leaves the loop after the first step: C24 must
\* fail with it
breaks_after_one_step(stepped) == Len(stepped.last_consolidation) >= 0

\* solve, lines 276-286: the loop is left after the step that made `stepped`
solve_breaks(stepped) ==
    IF Len(stepped.last_consolidation) = 0 THEN TRUE
    ELSE Then(status(stepped.grid), LAMBDA st :
             IF st = Solved THEN TRUE
             ELSE IF IsIllDefined(st) THEN TRUE
             ELSE FALSE)

\* Puzzle::solve
RECURSIVE solve(_)
solve(p) ==
    Then(step(p), LAMBDA stepped :
        IF solve_breaks(stepped) THEN stepped ELSE solve(stepped))

---------------------------------------------------------------------------
(* The guess search.  A live call of solve_with_guesses is a frame of       *)
(* `stack`: its argument, its Vec of guesses, the number of iterations its  *)
(* loop has begun and its variable `result`.                                *)

\* Guess
Guess(r, c, number) == [row |-> r, column |-> c, number |-> number]

\* solve_with_guesses, lines 1169-1177: one Guess for each candidate of a cell
RECURSIVE silly_for_test(_, _, _)
silly_for_test(row_num, col_num, candidates) ==
    IF candidates = <<>> THEN <<>>
    ELSE <<Guess(row_num, col_num, Head(candidates))>>
            \o silly_for_test(row_num, col_num, Tail(candidates))

\* a faulty Vec of guesses that holds only the guess the loop takes first: C2
\* must fail with it
first_guess_only(given_puzzle) ==
    LET cells == SelectSeq(RowScan, LAMBDA p :
                     Len(candidates_as_vec(given_puzzle.grid[p[1]][p[2]])) > 0)
    IN  IF Len(cells) = 0 THEN <<>>
        ELSE LET p == cells[Len(cells)]
                 candidates == candidates_as_vec(given_puzzle.grid[p[1]][p[2]])
             IN  <<Guess(p[1], p[2], candidates[Len(candidates)])>>

\* solve_with_guesses, lines 1164-1182: `guesses` after the two loops, the
\* guesses of the last cell, row by row, that has a candidate
guesses_of(given_puzzle) ==
    LET cells == SelectSeq(RowScan, LAMBDA p :
                     Len(candidates_as_vec(given_puzzle.grid[p[1]][p[2]])) > 0)
    IN  IF Len(cells) = 0 THEN <<>>
        ELSE LET p == cells[Len(cells)]
             IN  silly_for_test(p[1], p[2],
                     candidates_as_vec(given_puzzle.grid[p[1]][p[2]]))

\* solve_with_guesses, lines 1162-1190: a call that has reached its loop
Call(given_puzzle) ==
    [given_puzzle |-> given_puzzle,
     guesses |-> guesses_of(given_puzzle),
     tried |-> 0,
     result |-> None]

\* a faulty next_guess that takes the guesses from the first to the last: C20
\* must fail with it
next_guess_in_order(call) == call.guesses[call.tried + 1]

\* solve_with_guesses, line 1193: the guess of the iteration the loop of the
\* call begins next, guesses.iter().rev()
next_guess(call) == call.guesses[Len(call.guesses) - call.tried]

\* a faulty take_guess that writes the guess to given_puzzle itself and solves
\* it in place: C4 must fail with it
take_guess_in_place(given_puzzle, guess) ==
    LET trial == [given_puzzle EXCEPT !.grid[guess.row][guess.column] =
                     [@ EXCEPT !.number = Some(guess.number),
                               !.candidates = NoCandidates]]
    IN  [given_puzzle |-> solve(trial), trial |-> solve(trial)]

\* a faulty take_guess that solves the clone without writing the guess to it:
\* C22 must fail with it
take_guess_without_guess(given_puzzle, guess) ==
    [given_puzzle |-> given_puzzle, trial |-> solve(given_puzzle)]

\* a faulty take_guess that writes the first candidate of the cell of the
\* guess in place of the number of the guess: C25 must fail with it
take_guess_of_first_candidate(given_puzzle, guess) ==
    LET first == candidates_as_vec(
                     given_puzzle.grid[guess.row][guess.column])[1]
        trial == [given_puzzle EXCEPT !.grid[guess.row][guess.column] =
                     [@ EXCEPT !.number = Some(first),
                               !.candidates = NoCandidates]]
    IN  [given_puzzle |-> given_puzzle, trial |-> solve(trial)]

\* solve_with_guesses, lines 1195-1198: the clone of given_puzzle with the
\* guess written to it and solved, and given_puzzle as these lines leave it
\* (Puzzle derives Clone over arrays of Copy cells: the clone shares nothing)
take_guess(given_puzzle, guess) ==
    LET trial == [given_puzzle EXCEPT !.grid[guess.row][guess.column] =
                     [@ EXCEPT !.number = Some(guess.number),
                               !.candidates = NoCandidates]]
    IN  [given_puzzle |-> given_puzzle, trial |-> solve(trial)]

---------------------------------------------------------------------------
(* Inputs.  A text is given line by line, a line character by character.   *)

\* the lines of a text, each followed by "\n" but the last
RECURSIVE join_lines(_)
join_lines(lines) ==
    IF Len(lines) = 1 THEN lines[1]
    ELSE lines[1] \o <<"\n">> \o join_lines(Tail(lines))

\* the lines with the character e[3] at character e[2] of line e[1], both
\* counted from 0, for every e of `edits`
edited(lines, edits) ==
    Seq9(LAMBDA r : Seq9(LAMBDA c :
        IF \E e \in edits : e[1] = r - 1 /\ e[2] = c - 1
        THEN (CHOOSE e \in edits : e[1] = r - 1 /\ e[2] = c - 1)[3]
        ELSE lines[r][c]))

\* test::SAMPLE, its 9 lines
SAMPLE_lines ==
    <<<<".", "4", ".", "5", ".", "2", ".", ".", ".">>,
      <<"7", "6", ".", ".", ".", ".", "1", ".", "2">>,
      <<"9", ".", ".", ".", "1", "8", ".", "6", "4">>,
      <<".", ".", "4", "2", "9", ".", ".", ".", "8">>,
      <<".", "8", ".", "3", ".", "6", ".", "7", ".">>,
      <<"6", ".", ".", ".", "7", "5", "4", ".", ".">>,
      <<"2", "1", ".", "6", "8", ".", ".", ".", "3">>,
      <<"4", ".", "6", ".", ".", ".", ".", "2", "7">>,
      <<".", ".", ".", "4", ".", "9", ".", "1", ".">>>>

\* test::SAMPLE: a raw string that begins with a newline and ends with a
\* newline and four spaces
SAMPLE == <<"\n">> \o join_lines(SAMPLE_lines) \o <<"\n", " ", " ", " ", " ">>

\* the 9 lines of the grid that solve() makes of SAMPLE
Base ==
    <<<<"3", "4", "1", "5", "6", "2", "7", "8", "9">>,
      <<"7", "6", "8", "9", "3", "4", "1", "5", "2">>,
      <<"9", "5", "2", "7", "1", "8", "3", "6", "4">>,
      <<"5", "7", "4", "2", "9", "1", "6", "3", "8">>,
      <<"1", "8", "9", "3", "4", "6", "2", "7", "5">>,
      <<"6", "2", "3", "8", "7", "5", "4", "9", "1">>,
      <<"2", "1", "5", "6", "8", "7", "9", "4", "3">>,
      <<"4", "9", "6", "1", "5", "3", "8", "2", "7">>,
      <<"8", "3", "7", "4", "2", "9", "5", "1", "6">>>>

\* Base with 57 cells blank: solve() stalls and the search finds the one
\* completion after a wrong guess at each of two levels
Sparse ==
    <<<<".", "4", ".", ".", "6", ".", ".", ".", "9">>,
      <<"7", ".", ".", ".", ".", ".", ".", "5", "2">>,
      <<".", ".", ".", ".", ".", ".", "3", ".", ".">>,
      <<".", ".", "4", ".", ".", ".", "6", ".", ".">>,
      <<".", "8", ".", ".", ".", ".", ".", ".", ".">>,
      <<".", ".", "3", ".", "7", "5", ".", ".", ".">>,
      <<".", "1", ".", ".", ".", "7", "9", ".", ".">>,
      <<".", ".", ".", ".", "5", "3", "8", "2", ".">>,
      <<".", ".", "7", "4", "2", ".", ".", "1", ".">>>>

\* Sparse with the wrong guess of the first level as a given: no completion
Unsolvable == edited(Sparse, {<<7, 2, "9">>})

\* Base with four cells blank, two rows by two columns of two numbers: solve()
\* stalls and both ways of filling them complete the grid
Rectangle ==
    edited(Base, {<<1, 0, ".">>, <<1, 3, ".">>, <<2, 0, ".">>, <<2, 3, ".">>})

\* two such rectangles: the first guess leaves the other rectangle open
TwoRectangles ==
    edited(Rectangle, {<<6, 5, ".">>, <<6, 8, ".">>, <<7, 5, ".">>, <<7, 8, ".">>})

\* Rectangle with the character 0 twice in its last line
ZeroRectangle == edited(Rectangle, {<<8, 6, "0">>, <<8, 7, "0">>})

\* Base with a 4 for its first character: 4 twice in a row, a column, a block
Repeated == edited(Base, {<<0, 0, "4">>})

\* Repeated with a cell blank: a step assigns it and leaves a row that repeats
RepeatedBlank == edited(Repeated, {<<1, 0, ".">>})

\* Base with four cells blank: after assign_candidates and a first
\* consolidate_candidates a second one finds, among candidates that the first
\* has left as they were, a number that one cell of a row holds and no block does
HiddenInRow ==
    edited(Base, {<<3, 3, ".">>, <<3, 7, ".">>, <<4, 3, ".">>, <<4, 6, ".">>})

\* the same for a column, with neither a block nor a row
HiddenInColumn ==
    edited(Base, {<<0, 4, ".">>, <<1, 5, ".">>, <<4, 4, ".">>, <<4, 5, ".">>})

\* the same as HiddenInRow for a cell of block 3, (3, 1)
HiddenInRowOfBlock3 ==
    edited(Base, {<<3, 1, ".">>, <<3, 3, ".">>, <<5, 1, ".">>, <<5, 4, ".">>})

\* the same as HiddenInColumn for a cell of block 1, (2, 3)
HiddenInColumnOfBlock1 ==
    edited(Base, {<<2, 3, ".">>, <<2, 4, ".">>, <<5, 4, ".">>, <<7, 3, ".">>})

\* Base with a 0 in place of its 3 of block 0 and four cells blank: the two
\* blank cells of block 0 are in row 1 and both may hold 3, and so may the
\* blank cell of row 1 in block 1, which holds 3 in Base
ZeroLocked ==
    edited(Base, {<<0, 0, "0">>, <<1, 0, ".">>, <<1, 1, ".">>, <<1, 4, ".">>,
                  <<8, 1, ".">>})

\* the texts main is run on
MainInputs ==
    {SAMPLE} \cup {join_lines(lines) : lines \in
        {Sparse, Unsolvable, Rectangle, TwoRectangles, ZeroRectangle, Repeated,
         RepeatedBlank}}

\* the most cells of Base a test leaves blank
MaxBlanks == 2

\* the most Puzzle methods a test calls
MaxCalls == 3

\* the cells of Base the tests leave blank
BlankPool == {<<1, 0>>, <<1, 3>>, <<0, 1>>, <<8, 1>>}

\* the characters the tests write over Base: none; a 4 that repeats in its
\* row, column and block; two 0 in one row; a 6 that repeats in its block only
Substitutions ==
    {{},
     {<<0, 0, "4">>},
     {<<8, 6, "0">>, <<8, 7, "0">>},
     {<<0, 0, "6">>, <<0, 4, "0">>, <<5, 0, "0">>}}

\* the texts the Puzzle methods are called on one by one, as the tests do
TestInputs ==
    {SAMPLE, join_lines(HiddenInRow), join_lines(HiddenInColumn),
     join_lines(Rectangle), join_lines(ZeroLocked),
     join_lines(HiddenInRowOfBlock3), join_lines(HiddenInColumnOfBlock1)} \cup
    {join_lines(edited(Base, subst \cup {<<p[1], p[2], ".">> : p \in blanks})) :
        <<subst, blanks>> \in
            {q \in Substitutions \X SUBSET BlankPool :
                /\ Cardinality(q[2]) <= MaxBlanks
                /\ \A e \in q[1] : <<e[1], e[2]>> \notin q[2]}}

---------------------------------------------------------------------------
(* The program: the Puzzle methods called one by one on a parsed puzzle,   *)
(* as the tests do (pc = "test"), and main.                                *)

Init ==
    /\ \/ pc = "test" /\ input \in TestInputs
       \/ pc = "main" /\ input \in MainInputs
    /\ puzzle = [grid |-> parse(input), last_consolidation |-> <<>>]
    /\ last_op = "parse"
    /\ stack = <<>>
    /\ trial_puzzle = None
    /\ args = <<>>
    /\ ret = None
    /\ calls = 0

\* puzzle.assign_candidates()
AssignCandidates ==
    /\ pc = "test"
    /\ calls < MaxCalls
    /\ calls' = calls + 1
    /\ puzzle' = [puzzle EXCEPT !.grid = assign_candidates(puzzle.grid)]
    /\ last_op' = "assign_candidates"
    /\ ret' = None
    /\ UNCHANGED <<input, stack, trial_puzzle, pc, args>>

\* puzzle.consolidate_candidates(), the Vec it returns in `ret`
ConsolidateCandidates ==
    /\ pc = "test"
    /\ calls < MaxCalls
    /\ calls' = calls + 1
    /\ LET consolidated == consolidate_candidates(puzzle.grid)
       IN  /\ puzzle' = [puzzle EXCEPT !.grid = consolidated.grid]
           /\ ret' = Some(consolidated.progress)
    /\ last_op' = "consolidate_candidates"
    /\ UNCHANGED <<input, stack, trial_puzzle, pc, args>>

\* puzzle.step(), the Vec it returns in `ret`
Step ==
    /\ pc = "test"
    /\ calls < MaxCalls
    /\ calls' = calls + 1
    /\ LET stepped == step(puzzle)
       IN  /\ puzzle' = stepped
           /\ ret' = Some(stepped.last_consolidation)
    /\ last_op' = "step"
    /\ UNCHANGED <<input, stack, trial_puzzle, pc, args>>

\* puzzle.solve()
Solve ==
    /\ pc = "test"
    /\ calls < MaxCalls
    /\ calls' = calls + 1
    /\ puzzle' = solve(puzzle)
    /\ last_op' = "solve"
    /\ ret' = None
    /\ UNCHANGED <<input, stack, trial_puzzle, pc, args>>

\* main, line 1231: puzzle.solve(), one iteration of its loop (lines 266-287):
\* pc is "main" before the call, "solve" at the head of the loop after an
\* iteration that has not left it, "solved" after the call
MainSolve ==
    /\ pc \in {"main", "solve"}
    /\ LET stepped == step(puzzle)
       IN  /\ puzzle' = stepped
           /\ pc' = IF solve_breaks(stepped) THEN "solved" ELSE "solve"
    /\ last_op' = "solve"
    /\ UNCHANGED <<input, stack, trial_puzzle, args, ret, calls>>

\* main, lines 1276-1286: the puzzle is Solved or IllDefined, the process exits
MainExit ==
    /\ pc = "solved"
    /\ status(puzzle.grid) # Unsolved
    /\ pc' = "exit"
    /\ UNCHANGED <<input, puzzle, last_op, stack, trial_puzzle, args, ret, calls>>

\* main, lines 1287-1294: the puzzle is Unsolved, solve_with_guesses(puzzle)
MainGuess ==
    /\ pc = "solved"
    /\ status(puzzle.grid) = Unsolved
    /\ stack' = <<Call(puzzle)>>
    /\ pc' = "search"
    /\ UNCHANGED <<input, puzzle, last_op, trial_puzzle, args, ret, calls>>

\* solve_with_guesses, lines 1193-1214: one iteration of the loop of the
\* innermost call, up to the value of the match or the call of line 1212
TryGuess ==
    /\ pc = "search"
    /\ LET n == Len(stack)
           top == stack[n]
       IN  /\ top.result = None
           /\ top.tried < Len(top.guesses)
           /\ LET guess == next_guess(top)
                  taken == take_guess(top.given_puzzle, guess)
                  st == status(taken.trial.grid)
                  caller == [top EXCEPT !.given_puzzle = taken.given_puzzle,
                                        !.tried = @ + 1]
              IN  stack' =
                      IF st = Solved
                      THEN [stack EXCEPT ![n] =
                               [caller EXCEPT !.result = Some(taken.trial)]]
                      ELSE IF IsIllDefined(st)
                      THEN [stack EXCEPT ![n] = caller]
                      ELSE Append([stack EXCEPT ![n] = caller], Call(taken.trial))
    /\ UNCHANGED <<input, puzzle, last_op, trial_puzzle, pc, args, ret, calls>>

\* solve_with_guesses, lines 1216-1226: the innermost call leaves its loop,
\* by the break or with no guess left, and returns `result`: to line 1212 of
\* its caller, or to line 1294 of main
Return ==
    /\ pc = "search"
    /\ LET n == Len(stack)
           top == stack[n]
       IN  /\ IsSome(top.result) \/ top.tried = Len(top.guesses)
           /\ IF n = 1
              THEN /\ trial_puzzle' = top.result
                   /\ stack' = <<>>
                   /\ pc' = "done"
              ELSE /\ stack' = [SubSeq(stack, 1, n - 1) EXCEPT
                                   ![n - 1].result = top.result]
                   /\ UNCHANGED <<trial_puzzle, pc>>
    /\ UNCHANGED <<input, puzzle, last_op, args, ret, calls>>

Next ==
    \/ AssignCandidates
    \/ ConsolidateCandidates
    \/ Step
    \/ Solve
    \/ MainSolve
    \/ MainExit
    \/ MainGuess
    \/ TryGuess
    \/ Return

Spec == Init /\ [][Next]_vars

---------------------------------------------------------------------------
(* The two reductions called on their own, as test::reduce_candidates_by_  *)
(* uniqueness and test::helpers call them: `args` holds the arguments and  *)
(* `ret` the value returned.                                               *)

\* the most numbers of a candidate Vec passed to reduce_candidates_by_uniqueness
MaxDigit == 3

\* the most entries of its argument that hold a candidate
MaxCells == 3

\* test::reduce_candidates_by_uniqueness, its first argument
pinned_pair ==
    <<<<2, 7>>, <<2, 5, 7, 8>>, <<1>>, <<3>>, <<9>>, <<4>>, <<6>>, <<5, 8>>,
      <<5, 8>>>>

\* test::reduce_candidates_by_uniqueness, its second argument
pinned_triplet ==
    <<<<6, 3, 8>>, <<3, 4, 8>>, <<3, 4, 8>>, <<1>>, <<2, 4>>, <<5>>, <<4, 8, 9>>,
      <<7>>, <<3, 4, 8>>>>

\* two pairs that share a number, each in two cells: what a row of a grid
\* that repeats 2 can hold
crossed_pairs ==
    <<<<1, 2>>, <<1, 2>>, <<2, 3>>, <<2, 3>>, <<>>, <<>>, <<>>, <<>>, <<>>>>

\* three pairs, no two the same, of three numbers, next to Vecs that hold
\* those numbers
distinct_pairs ==
    <<<<5, 8>>, <<3, 8>>, <<3, 5>>, <<3, 5, 9>>, <<1, 8>>, <<2>>, <<4>>, <<6>>,
      <<7>>>>

\* the arguments of reduce_candidates_by_uniqueness: 9 Vecs, the first
\* MaxCells of them any sorted Vec of the numbers 1..MaxDigit and the others
\* empty as those of cells that have a value, and the three Vecs above
GroupInputs ==
    {pinned_pair, pinned_triplet, crossed_pairs, distinct_pairs} \cup
    {Seq9(LAMBDA i : IF i <= MaxCells THEN SortedVecOfSet(f[i]) ELSE <<>>) :
        f \in [1..MaxCells -> SUBSET (1..MaxDigit)]}

\* the grids the loop of assign_candidates passes to the water cannon and to
\* sara flex in its first round, for SAMPLE and for Sparse
CannonGrids ==
    UNION {{peer_candidates(parse(text)),
            reduce_candidates_with_sara_flex(peer_candidates(parse(text))).grid} :
        text \in {SAMPLE, join_lines(Sparse)}}

\* a grid, a block and a number of the loops of
\* reduce_candidates_using_water_cannon
ShotInputs ==
    {[grid |-> grid, b |-> b, number |-> number] :
        grid \in CannonGrids, b \in Idx, number \in 1..9}

\* the most blank lines a text passed to Puzzle::parse has among its lines
MaxBlankLines == 1

\* a blank line: no character, or spaces only
BlankLines == {<<>>, <<" ", " ">>}

\* the lines with the line `blank` after the first k of them
with_blank(lines, k, blank) ==
    SubSeq(lines, 1, k) \o <<blank>> \o SubSeq(lines, k + 1, Len(lines))

\* the lines with at most n blank lines put anywhere among them
RECURSIVE Blanked(_, _)
Blanked(lines, n) ==
    IF n = 0 THEN {lines}
    ELSE LET fewer == Blanked(lines, n - 1)
         IN  fewer \cup UNION {{with_blank(l, k, blank) :
                                   k \in 0..Len(l), blank \in BlankLines} :
                               l \in fewer}

\* the characters written over Base: none, the digit 0, a letter, a space
\* and a dot inside a line, another digit
ParseEdits ==
    {{}, {<<0, 0, "0">>}, {<<4, 4, "x">>}, {<<2, 3, " ">>}, {<<8, 7, ".">>},
     {<<0, 0, "0">>, <<6, 2, "9">>}}

\* the 9 lines of a grid, its first 8 lines, and its 9 lines with one more
Lengths(lines) == {lines, SubSeq(lines, 1, 8), lines \o <<lines[1]>>}

\* the texts Puzzle::parse is called on
ParseInputs ==
    {SAMPLE} \cup
    {join_lines(blanked) : blanked \in
        UNION {Blanked(lines, MaxBlankLines) : lines \in
            UNION {Lengths(edited(Base, e)) : e \in ParseEdits}}}

InitRules ==
    /\ \/ pc = "reduce" /\ args \in GroupInputs
       \/ pc = "cannon" /\ args \in ShotInputs
       \/ pc = "parse" /\ args \in ParseInputs
    /\ input = <<>>
    /\ puzzle = [grid |-> parse(input), last_consolidation |-> <<>>]
    /\ last_op = "parse"
    /\ stack = <<>>
    /\ trial_puzzle = None
    /\ ret = None
    /\ calls = 0

\* reduce_candidates_by_uniqueness(args)
Reduce ==
    /\ pc = "reduce"
    /\ ret' = Some(reduce_candidates_by_uniqueness(args))
    /\ pc' = "reduced"
    /\ UNCHANGED <<input, puzzle, last_op, stack, trial_puzzle, args, calls>>

\* reduce_candidates_using_water_cannon, lines 484-524 for one block and one
\* number on the grid of `args`
Shot ==
    /\ pc = "cannon"
    /\ ret' = Some(water_cannon_shot([grid |-> args.grid, reductions |-> 0],
                                     block(args.grid, args.b), args.b,
                                     args.number))
    /\ pc' = "shot"
    /\ UNCHANGED <<input, puzzle, last_op, stack, trial_puzzle, args, calls>>

\* Puzzle::parse(args): the grid of the Puzzle it returns, or the panic of an
\* index out of bounds at line 132
Parse ==
    /\ pc = "parse"
    /\ IF parse_panics(args)
       THEN ret' = None /\ pc' = "panic"
       ELSE ret' = Some(parse(args)) /\ pc' = "parsed"
    /\ UNCHANGED <<input, puzzle, last_op, stack, trial_puzzle, args, calls>>

NextRules ==
    \/ Reduce
    \/ Shot
    \/ Parse

SpecRules == InitRules /\ [][NextRules]_vars

---------------------------------------------------------------------------
(* What the claims speak of *)

\* the values of the 9 cells of the rows, the columns and the blocks
Groups(grid) ==
    {row(grid, i) : i \in Idx} \cup {column(grid, i) : i \in Idx}
        \cup {block_as_slice(grid, i) : i \in Idx}

\* every cell has a value
Complete(grid) == \A r \in Idx : \A c \in Idx : IsSome(grid[r][c].number)

\* no row, column or block contains the same value twice
NoRepeat(grid) ==
    \A cells \in Groups(grid) : \A j \in 1..9 : \A k \in 1..9 :
        (j # k /\ IsSome(cells[j].number)) => cells[j].number # cells[k].number

\* grid G is a completion of `grid`: complete, with the values 1..9, no value
\* twice in a row, column or block, and the value of `grid` wherever it has one
Completes(G, grid) ==
    /\ Complete(G)
    /\ NoRepeat(G)
    /\ \A r \in Idx : \A c \in Idx :
          /\ Unwrap(G[r][c].number) \in 1..9
          /\ IsSome(grid[r][c].number) => grid[r][c].number = G[r][c].number

\* the grid of Base
Completion == parse(join_lines(Base))

\* the innermost call has left its loop and is about to return `result`
Returning(i) ==
    /\ i = Len(stack)
    /\ IsSome(stack[i].result) \/ stack[i].tried = Len(stack[i].guesses)

\* every Option<Puzzle> a call of solve_with_guesses has returned or holds in
\* `result`
Results == {trial_puzzle} \cup {stack[i].result : i \in 1..Len(stack)}

\* every grid of the state
Grids ==
    {puzzle.grid} \cup {stack[i].given_puzzle.grid : i \in 1..Len(stack)}
        \cup {Unwrap(o).grid : o \in {x \in Results : IsSome(x)}}

\* the candidates of a cell as a set
CandidateSet(cell) == RangeOf(candidates_as_vec(cell))

\* the numbers 1..9 that no cell of the row, the column or the block of (r, c)
\* has for its value
PeerFree(grid, r, c) ==
    (1..9) \ {Unwrap(grid[p[1]][p[2]].number) : p \in
                {q \in Idx \X Idx :
                    /\ IsSome(grid[q[1]][q[2]].number)
                    /\ \/ q[1] = r
                       \/ q[2] = c
                       \/ (q[1] \div 3 = r \div 3 /\ q[2] \div 3 = c \div 3)}}

---------------------------------------------------------------------------
(* The claims *)

\* C1: whenever solve_with_guesses returns a grid, that grid has status
\* Solved: every cell has a value and no row, column or block contains the
\* same value twice.
C1_ReturnedGridIsSolved ==
    \A o \in Results :
        IsSome(o) => /\ status(Unwrap(o).grid) = Solved
                     /\ Complete(Unwrap(o).grid)
                     /\ NoRepeat(Unwrap(o).grid)

\* C2: a call of solve_with_guesses on a grid on which solve() has stalled
\* with status Unsolved and which has a completion returns a grid with status
\* Solved.  The completion looked for is the grid of Base.
C2_SolvableIsSolved ==
    /\ (pc = "done" /\ Completes(Completion, puzzle.grid)) =>
          (IsSome(trial_puzzle) /\ status(Unwrap(trial_puzzle).grid) = Solved)
    /\ \A i \in 1..Len(stack) :
          (/\ Returning(i)
           /\ status(stack[i].given_puzzle.grid) = Unsolved
           /\ Completes(Completion, stack[i].given_puzzle.grid)) =>
              (/\ IsSome(stack[i].result)
               /\ status(Unwrap(stack[i].result).grid) = Solved)

\* C2 is reached: main's search on Sparse, which takes a wrong guess at each
\* of two levels, has returned a grid
C2_Witness ==
    /\ pc = "done"
    /\ input = join_lines(Sparse)
    /\ Completes(Completion, puzzle.grid)
    /\ IsSome(trial_puzzle)

\* C3: a call of solve_with_guesses on a stalled grid that no assignment of
\* its unresolved cells makes free of repeated values returns None.  The
\* grids looked at are those that repeat a value already.
C3_UnsolvableReturnsNone ==
    /\ (pc = "done" /\ ~NoRepeat(puzzle.grid)) => trial_puzzle = None
    /\ \A i \in 1..Len(stack) :
          (/\ Returning(i)
           /\ status(stack[i].given_puzzle.grid) = Unsolved
           /\ ~NoRepeat(stack[i].given_puzzle.grid)) =>
              stack[i].result = None

\* C4: a guess and the solve() of its clone change no cell of the grid the
\* clone was taken from: as long as a call lives its given_puzzle stays as it
\* was, so every guess of it starts from the same grid.
C4_BranchIsolation ==
    [][\A i \in 1..Len(stack) :
          i <= Len(stack') => stack'[i].given_puzzle = stack[i].given_puzzle]_vars

\* C4 is reached: a call has tried a second guess after a first one failed
C4_Witness ==
    \E i \in 1..Len(stack) : stack[i].tried >= 2

\* C5: in every state every cell that has a value has no candidate.
C5_ValuedCellsHaveNoCandidates ==
    \A grid \in Grids : \A r \in Idx : \A c \in Idx :
        IsSome(grid[r][c].number) => CandidateSet(grid[r][c]) = {}

\* C5 is reached: a call of the search works on a grid that holds a value
\* that was not given
C5_Witness ==
    \E i \in 2..Len(stack) : \E r \in Idx : \E c \in Idx :
        LET cell == stack[i].given_puzzle.grid[r][c]
        IN  IsSome(cell.number) /\ ~cell.given

\* C6: after assign_candidates, a second call of it at once leaves every
\* cell's candidates as the first call left them.
C6_AssignCandidatesIdempotent ==
    last_op = "assign_candidates" =>
        LET again == assign_candidates(puzzle.grid)
        IN  \A r \in Idx : \A c \in Idx :
                CandidateSet(again[r][c]) = CandidateSet(puzzle.grid[r][c])

\* C6 is reached: assign_candidates has run on SAMPLE, where the two rules
\* take candidates away in two rounds
C6_Witness ==
    /\ last_op = "assign_candidates"
    /\ input = SAMPLE
    /\ \E r \in Idx : \E c \in Idx :
          /\ ~IsSome(puzzle.grid[r][c].number)
          /\ CandidateSet(puzzle.grid[r][c]) # PeerFree(puzzle.grid, r, c)

\* C7: after assign_candidates the candidates of every cell without a value
\* are among the numbers 1..9 that are the value of no cell of its row, column
\* and block; they are exactly those numbers before the two rules run; on
\* SAMPLE cell (1,2) has the candidates {5,8} out of the {3,5,8} left by its
\* peers.
C7_CandidatesWithinPeerFree ==
    last_op = "assign_candidates" =>
        /\ \A r \in Idx : \A c \in Idx :
              ~IsSome(puzzle.grid[r][c].number) =>
                 /\ CandidateSet(puzzle.grid[r][c]) \subseteq
                        PeerFree(puzzle.grid, r, c)
                 /\ CandidateSet(peer_candidates(puzzle.grid)[r][c]) =
                        PeerFree(puzzle.grid, r, c)
        /\ (input = SAMPLE /\ calls = 1) =>
              /\ CandidateSet(puzzle.grid[1][2]) = {5, 8}
              /\ PeerFree(puzzle.grid, 1, 2) = {3, 5, 8}

\* C7 is reached: assign_candidates has run on the parsed SAMPLE and has left
\* cell (1,2) fewer candidates than its peers do
C7_Witness ==
    /\ last_op = "assign_candidates"
    /\ input = SAMPLE
    /\ calls = 1
    /\ CandidateSet(puzzle.grid[1][2]) # PeerFree(puzzle.grid, 1, 2)

\* the least number of a set of numbers
Lowest(S) == CHOOSE x \in S : \A y \in S : x <= y

\* the values 1..9 that more than one of the 9 cells has
RepeatedIn(cells) ==
    {v \in 1..9 : \E j \in 1..9 : \E k \in 1..9 :
        j # k /\ cells[j].number = Some(v) /\ cells[k].number = Some(v)}

\* the status C10 states, stage by stage
StageStatus(grid) ==
    LET unassignable == {p \in Idx \X Idx :
                            /\ ~IsSome(grid[p[1]][p[2]].number)
                            /\ CandidateSet(grid[p[1]][p[2]]) = {}}
        rows == {r \in Idx : RepeatedIn(row(grid, r)) # {}}
        columns == {c \in Idx : RepeatedIn(column(grid, c)) # {}}
        blocks == {b \in Idx : RepeatedIn(block_as_slice(grid, b)) # {}}
    IN  IF unassignable # {} THEN
            LET r == Lowest({p[1] : p \in unassignable})
                c == Lowest({p[2] : p \in {q \in unassignable : q[1] = r}})
            IN  NoPossibleSolution(r, c)
        ELSE IF rows # {} THEN
            LET r == Lowest(rows)
            IN  NumberRepeatsInRow(Lowest(RepeatedIn(row(grid, r))), r)
        ELSE IF columns # {} THEN
            LET c == Lowest(columns)
            IN  NumberRepeatsInColumn(Lowest(RepeatedIn(column(grid, c))), c)
        ELSE IF blocks # {} THEN
            LET b == Lowest(blocks)
            IN  NumberRepeatsInBlock(Lowest(RepeatedIn(block_as_slice(grid, b))), b)
        ELSE IF Complete(grid) THEN Solved
        ELSE Unsolved

\* C10: status returns the result of the first stage that matches, in the
\* order (1) NoPossibleSolution for the first unresolved cell, row by row,
\* with no candidate, (2) NumberRepeatsInRow for the lowest row and then the
\* lowest value 1..9 that repeats in it, (3) the same for columns, (4) the same
\* for blocks, (5) Solved if every cell has a value and Unsolved otherwise; so
\* it returns Solved exactly for a grid in which every cell has a value and no
\* row, column or block contains the same value twice.
C10_StatusStages ==
    \A grid \in Grids :
        /\ status(grid) = StageStatus(grid)
        /\ status(grid) = Solved <=> (Complete(grid) /\ NoRepeat(grid))

\* the Vecs of two or more numbers that are as many of the 9 entries as they
\* have numbers
PinnedSets(candidates) ==
    {S \in RangeOf(candidates) :
        /\ Len(S) >= 2
        /\ Cardinality({i \in 1..9 : candidates[i] = S}) = Len(S)}

\* the Vec is in ascending order
Ascending(v) == \A i \in 1..(Len(v) - 1) : v[i] < v[i + 1]

\* C8: reduce_candidates_by_uniqueness on the 9 candidate sets of a group:
\* every set S of two or more numbers that is, identical, the set of exactly
\* |S| cells has its numbers removed from every cell whose set is not S; a
\* cell loses no other number, so a set held by one cell only removes nothing
\* and the cells that hold S keep what no other such set holds; the sets are
\* returned in the order of the input.
C8_PinnedSubsets ==
    pc = "reduced" =>
        LET reduced == Unwrap(ret)
        IN  /\ Len(reduced) = 9
            /\ \A i \in 1..9 :
                  /\ Ascending(reduced[i])
                  /\ RangeOf(reduced[i]) \subseteq RangeOf(args[i])
                  /\ \A S \in PinnedSets(args) :
                        args[i] # S => RangeOf(reduced[i]) \cap RangeOf(S) = {}
                  /\ \A n \in RangeOf(args[i]) \ RangeOf(reduced[i]) :
                        \E S \in PinnedSets(args) : args[i] # S /\ n \in RangeOf(S)

\* C8 is reached: a pinned pair has taken a number from another cell, next to
\* a set of one number that one cell holds
C8_Witness ==
    /\ pc = "reduced"
    /\ PinnedSets(args) # {}
    /\ \E i \in 1..9 : RangeOf(Unwrap(ret)[i]) # RangeOf(args[i])
    /\ \E i \in 1..9 :
          Len(args[i]) = 1 /\ Cardinality({j \in 1..9 : args[j] = args[i]}) = 1

\* C8 as stated: every non-empty set S that is, identical, the set of exactly
\* |S| cells has its numbers removed from every cell whose set is not S, and
\* the cells that hold S keep S.
C8_EveryPinnedSet ==
    pc = "reduced" =>
        LET reduced == Unwrap(ret)
        IN  \A S \in RangeOf(args) :
                (/\ Len(S) >= 1
                 /\ Cardinality({i \in 1..9 : args[i] = S}) = Len(S)) =>
                    \A i \in 1..9 :
                        IF args[i] = S
                        THEN RangeOf(reduced[i]) = RangeOf(S)
                        ELSE RangeOf(reduced[i]) \cap RangeOf(S) = {}

\* the cells of block b whose candidates hold the number
SightCells(grid, b, number) ==
    {p \in Idx \X Idx :
        /\ block_num_for_row_col(p[1], p[2]) = b
        /\ number \in CandidateSet(grid[p[1]][p[2]])}

\* C9: for a block b and a number d: if 2 or 3 cells of b have d for a
\* candidate and are in one row, d leaves every cell of that row outside b; if
\* they are in one column instead, d leaves every cell of that column outside
\* b; otherwise nothing is removed.  No cell of b changes and no candidate
\* other than d.
C9_LockedCandidates ==
    pc = "shot" =>
        LET before == args.grid
            after == Unwrap(ret).grid
            sights == SightCells(before, args.b, args.number)
            lined_up == Cardinality(sights) \in {2, 3}
            in_row == lined_up /\ \E r \in Idx : \A p \in sights : p[1] = r
            in_column == lined_up /\ ~in_row
                            /\ \E c \in Idx : \A p \in sights : p[2] = c
            shot_at(r, c) ==
                /\ block_num_for_row_col(r, c) # args.b
                /\ \/ in_row /\ \E p \in sights : p[1] = r
                   \/ in_column /\ \E p \in sights : p[2] = c
        IN  \A r \in Idx : \A c \in Idx :
                /\ after[r][c].number = before[r][c].number
                /\ after[r][c].given = before[r][c].given
                /\ CandidateSet(after[r][c]) =
                      IF shot_at(r, c)
                      THEN CandidateSet(before[r][c]) \ {args.number}
                      ELSE CandidateSet(before[r][c])

\* C9 is reached: a shot along a column has taken the number from a cell
C9_Witness ==
    /\ pc = "shot"
    /\ \E c \in Idx : \A p \in SightCells(args.grid, args.b, args.number) : p[2] = c
    /\ Unwrap(ret).reductions > 0

\* the values, 0 among them, that more than one of the 9 cells has
AssignedTwice(cells) ==
    {v \in 0..9 : Cardinality({k \in 1..9 : cells[k].number = Some(v)}) > 1}

\* a cell without a value has no candidate
Unassignable(grid) ==
    \E r \in Idx : \E c \in Idx :
        ~IsSome(grid[r][c].number) /\ CandidateSet(grid[r][c]) = {}

ConsolidateCall ==
    /\ pc = "test"
    /\ calls' = calls + 1
    /\ last_op' \in {"consolidate_candidates", "step"}

\* the grid as it is when that call of consolidate_candidates begins
ConsolidateStart ==
    IF last_op' = "step" THEN assign_candidates(puzzle.grid) ELSE puzzle.grid

\* the cells without a value that have exactly one candidate
NakedSingles(grid) ==
    {p \in Idx \X Idx : /\ ~IsSome(grid[p[1]][p[2]].number)
                        /\ Cardinality(CandidateSet(grid[p[1]][p[2]])) = 1}

\* how many of the 9 cells have no value and the number n for a candidate
Holders(cells, n) ==
    Cardinality({k \in 1..9 : /\ ~IsSome(cells[k].number)
                              /\ n \in CandidateSet(cells[k])})

\* <<r, c, n>>: cell (r, c) is the one cell without a value of its block
\* that has n for a candidate
HiddenInBlocks(grid) ==
    {h \in Idx \X Idx \X (1..9) :
        /\ ~IsSome(grid[h[1]][h[2]].number)
        /\ h[3] \in CandidateSet(grid[h[1]][h[2]])
        /\ Holders(block_as_slice(grid, block_num_for_row_col(h[1], h[2])),
                   h[3]) = 1}

\* the same for its row
HiddenInRows(grid) ==
    {h \in Idx \X Idx \X (1..9) :
        /\ ~IsSome(grid[h[1]][h[2]].number)
        /\ h[3] \in CandidateSet(grid[h[1]][h[2]])
        /\ Holders(row(grid, h[1]), h[3]) = 1}

\* the same for its column
HiddenInColumns(grid) ==
    {h \in Idx \X Idx \X (1..9) :
        /\ ~IsSome(grid[h[1]][h[2]].number)
        /\ h[3] \in CandidateSet(grid[h[1]][h[2]])
        /\ Holders(column(grid, h[2]), h[3]) = 1}

\* the tier of a record
TierOf(record) ==
    CASE record[1] = "SingleCandidateForCell" -> 1
      [] record[1] = "OnlyOnePossibleCandidateForBlock" -> 2
      [] record[1] = "OnlyOnePossibleCandidateForRow" -> 3
      [] record[1] = "OnlyOnePossibleCandidateForColumn" -> 4

\* the tiers of the records of a Vec
TiersOf(records) == {TierOf(records[i]) : i \in 1..Len(records)}

\* C12: one call of consolidate_candidates applies the first applicable tier
\* only, in the order naked single, hidden single in a block, in a row, in a
\* column: the records it returns are all of one tier, the lowest tier that
\* can assign a cell of the grid as it is when the call begins.
C12_FirstApplicableTier ==
    [][ConsolidateCall =>
          Then(ConsolidateStart, LAMBDA start :
          Then(<<NakedSingles(start) # {}, HiddenInBlocks(start) # {},
                 HiddenInRows(start) # {}>>, LAMBDA can :
              LET tiers == TiersOf(Unwrap(ret'))
              IN  /\ Cardinality(tiers) <= 1
                  /\ 2 \in tiers => ~can[1]
                  /\ 3 \in tiers => ~can[1] /\ ~can[2]
                  /\ 4 \in tiers => ~can[1] /\ ~can[2] /\ ~can[3]
                  /\ can[1] => tiers = {1}
                  /\ (~can[1] /\ can[2]) => tiers = {2}))]_vars

\* C12 is reached: a call has returned a record of tier 4 from a grid that has
\* values the parser did not give it
C12_Witness ==
    /\ last_op = "consolidate_candidates"
    /\ IsSome(ret)
    /\ 4 \in TiersOf(Unwrap(ret))

\* one of the three conditions solve() stops on holds of the puzzle
StopCondition(p) ==
    \/ p.last_consolidation = <<>>
    \/ status(p.grid) = Solved
    \/ status(p.grid)[1] = "IllDefined"

\* C13: solve() repeats step() and stops after a step exactly when the step
\* returned no record, or status is Solved, or status is IllDefined.  Every
\* iteration of main's solve() is one step(); the loop is left after it if and
\* only if one of the three holds; the puzzle is then the one solve() as a
\* whole makes of the parsed puzzle, and no step changes it afterwards; a
\* solve() called on its own returns with one of the three holding.
C13_SolveStops ==
    [][/\ (pc \in {"main", "solve"} /\ pc' \in {"solve", "solved"}) =>
              /\ puzzle' = step(puzzle)
              /\ pc' = "solved" <=> StopCondition(puzzle')
              /\ pc' = "solved" =>
                    puzzle' = solve([grid |-> parse(input),
                                     last_consolidation |-> <<>>])
       /\ (pc = "test" /\ last_op' = "solve" /\ calls' = calls + 1) =>
              StopCondition(puzzle')
       /\ pc \in {"solved", "exit", "search", "done"} => puzzle' = puzzle]_vars

\* C13 is reached: main's solve() is at the head of its loop after a step that
\* made an assignment and left the puzzle Unsolved
C13_Witness ==
    /\ pc = "solve"
    /\ puzzle.last_consolidation # <<>>
    /\ status(puzzle.grid) = Unsolved

\* every cell of `old` that has a value has that value and the same given flag
\* in `new`
Keeps(old, new) ==
    \A r \in Idx : \A c \in Idx :
        IsSome(old[r][c].number) =>
            /\ new[r][c].number = old[r][c].number
            /\ new[r][c].given = old[r][c].given

\* the given flags of `grid` are those of `parsed`
SameGivens(parsed, grid) ==
    \A r \in Idx : \A c \in Idx : grid[r][c].given = parsed[r][c].given

\* C14: the value of a cell is never reassigned.  No call of
\* assign_candidates, consolidate_candidates, step or solve changes or clears
\* the value of a cell of the puzzle that has one; within a branch of the
\* search the grid of a call keeps the values of the grid of its caller, and
\* the grid a call returns keeps those of the grid it was given; every grid
\* keeps the parsed values and has the parsed given flags.
C14_ValuesAreKept ==
    /\ [](Then(parse(input), LAMBDA parsed :
            /\ \A grid \in Grids : Keeps(parsed, grid) /\ SameGivens(parsed, grid)
            /\ \A i \in 1..Len(stack) :
                  /\ Keeps(IF i = 1 THEN puzzle.grid
                           ELSE stack[i - 1].given_puzzle.grid,
                           stack[i].given_puzzle.grid)
                  /\ IsSome(stack[i].result) =>
                        Keeps(stack[i].given_puzzle.grid,
                              Unwrap(stack[i].result).grid)
            /\ IsSome(trial_puzzle) =>
                  Keeps(puzzle.grid, Unwrap(trial_puzzle).grid)))
    /\ [][Keeps(puzzle.grid, puzzle'.grid)]_vars

\* C14 is reached: the search has returned a grid with values that the grid
\* it was called on does not have, after guesses at two levels
C14_Witness ==
    /\ pc = "done"
    /\ input = join_lines(TwoRectangles)
    /\ IsSome(trial_puzzle)
    /\ Unwrap(trial_puzzle).grid # puzzle.grid

\* the characters that are the digits 1..9, the digit d at d
Digits == <<"1", "2", "3", "4", "5", "6", "7", "8", "9">>

\* the cell C15 states for a character
CellOfCharacter(ch) ==
    IF \E d \in 1..9 : Digits[d] = ch
    THEN [number |-> Some(CHOOSE d \in 1..9 : Digits[d] = ch), given |-> TRUE,
          candidates |-> NoCandidates]
    ELSE BlankCell

\* the lines of the text that are not blank, in their order
NonBlankLines(text) ==
    SelectSeq(split_lines(trim(text)), LAMBDA line : trim(line) # <<>>)

\* C15: a character that is a digit 1..9 becomes a given cell with that value
\* and no candidate, any other character leaves its cell blank (no value, not
\* given, no candidate); so every value of a parsed grid is in 1..9.  The
\* characters looked at are those of the texts of 9 lines of 9 characters.
C15_ParsedDigits ==
    pc = "parsed" =>
        /\ \A r \in Idx : \A c \in Idx :
              IsSome(Unwrap(ret)[r][c].number) =>
                  Unwrap(Unwrap(ret)[r][c].number) \in 1..9
        /\ \A e \in ParseEdits :
              args = join_lines(edited(Base, e)) =>
                  \A r \in Idx : \A c \in Idx :
                      Unwrap(ret)[r][c] = CellOfCharacter(edited(Base, e)[r + 1][c + 1])

\* C16: blank lines are skipped and not counted as a row: the k-th non-blank
\* line of the trimmed text fills row k of the grid wherever the blank lines
\* are, a row with no such line stays blank, and the non-blank lines after the
\* ninth are not used.
C16_BlankLinesSkipped ==
    pc \in {"parsed", "panic"} =>
        /\ pc = "parsed"
        /\ LET lines == NonBlankLines(args)
           IN  \A r \in Idx : \A c \in Idx :
                  Unwrap(ret)[r][c] =
                      IF r + 1 <= Len(lines) /\ c + 1 <= Len(trim(lines[r + 1]))
                         /\ IsSome(to_digit(trim(lines[r + 1])[c + 1]))
                      THEN [number |-> to_digit(trim(lines[r + 1])[c + 1]),
                            given |-> TRUE, candidates |-> NoCandidates]
                      ELSE BlankCell

\* the record of tier 1 for cell (r, c) and its one candidate
SingleRecord(grid, r, c) ==
    SingleCandidateForCell(
        CellAssignment(CHOOSE n \in 1..9 : CandidateSet(grid[r][c]) = {n},
                       block_num_for_row_col(r, c), r % 3, c % 3))

\* C17: tier 1 is exhaustive.  If a cell without a value has exactly one
\* candidate when consolidate_candidates begins, then after the call every
\* such cell has that candidate for its value, the Vec returned holds exactly
\* one SingleCandidateForCell record for each such cell and nothing else, and
\* the value of no other cell has changed.
C17_NakedSinglesAllAssigned ==
    [][ConsolidateCall =>
          Then(ConsolidateStart, LAMBDA start :
          Then(NakedSingles(start), LAMBDA naked :
              naked # {} =>
                  /\ Len(Unwrap(ret')) = Cardinality(naked)
                  /\ RangeOf(Unwrap(ret')) =
                        {SingleRecord(start, p[1], p[2]) : p \in naked}
                  /\ \A r \in Idx : \A c \in Idx :
                        puzzle'.grid[r][c].number =
                            IF <<r, c>> \in naked
                            THEN Some(CHOOSE n \in 1..9 :
                                          CandidateSet(start[r][c]) = {n})
                            ELSE start[r][c].number))]_vars

\* C17 is reached: one call has assigned two cells that had one candidate
\* each and has left cells without a value
C17_Witness ==
    /\ last_op = "consolidate_candidates"
    /\ IsSome(ret)
    /\ Len(Unwrap(ret)) >= 2
    /\ TiersOf(Unwrap(ret)) = {1}
    /\ ~Complete(puzzle.grid)

\* the element of a set of <<r, c, n>> that comes first when `key` is scanned
\* in ascending order
FirstBy(S, key(_)) == CHOOSE h \in S : \A g \in S : key(h) <= key(g)

\* block, row in the block, column in the block, candidate
BlockOrder(h) ==
    block_num_for_row_col(h[1], h[2]) * 1000 + (h[1] % 3) * 100
        + (h[2] % 3) * 10 + h[3]

\* row, column, candidate
RowOrder(h) == h[1] * 100 + h[2] * 10 + h[3]

\* column, row, candidate
ColumnOrder(h) == h[2] * 100 + h[1] * 10 + h[3]

\* the one record C18 states for a grid without a naked single, if it states
\* one, and the <<r, c, n>> it assigns
FirstHidden(grid) ==
    LET in_blocks == HiddenInBlocks(grid)
        in_rows == HiddenInRows(grid)
        in_columns == HiddenInColumns(grid)
    IN  IF in_blocks # {} THEN
            LET h == FirstBy(in_blocks, BlockOrder)
            IN  <<h, OnlyOnePossibleCandidateForBlock(
                        CellAssignment(h[3], block_num_for_row_col(h[1], h[2]),
                                       h[1] % 3, h[2] % 3))>>
        ELSE IF in_rows # {} THEN
            LET h == FirstBy(in_rows, RowOrder)
            IN  <<h, OnlyOnePossibleCandidateForRow(
                        CellAssignment(h[3], block_num_for_row_col(h[1], h[2]),
                                       h[1], h[2]))>>
        ELSE IF in_columns # {} THEN
            LET h == FirstBy(in_columns, ColumnOrder)
            IN  <<h, OnlyOnePossibleCandidateForColumn(
                        CellAssignment(h[3], block_num_for_row_col(h[1], h[2]),
                                       h[1], h[2]))>>
        ELSE <<>>

\* C18: when consolidate_candidates applies tier 2, 3 or 4 it assigns exactly
\* one cell and returns exactly one record: that of the first cell and
\* candidate, in the scan order of the tier (blocks 0..8, then row and column
\* in the block, then candidate ascending; rows 0..8 then columns 0..8;
\* columns 0..8 then rows 0..8), whose candidate is in exactly one cell without
\* a value of that block, row or column.  Every other cell keeps the value it
\* has or stays without one.
C18_FirstHiddenSingleOnly ==
    [][ConsolidateCall =>
          Then(ConsolidateStart, LAMBDA start :
          Then(IF NakedSingles(start) = {} THEN FirstHidden(start) ELSE <<>>,
               LAMBDA first :
              first # <<>> =>
                  /\ Unwrap(ret') = <<first[2]>>
                  /\ \A r \in Idx : \A c \in Idx :
                        puzzle'.grid[r][c].number =
                            IF <<r, c>> = <<first[1][1], first[1][2]>>
                            THEN Some(first[1][3])
                            ELSE start[r][c].number))]_vars

\* C18 is reached: a call has returned one record of tier 3 and has left a
\* cell of another row without the value that only it can take in its row
C18_Witness ==
    /\ last_op = "consolidate_candidates"
    /\ IsSome(ret)
    /\ TiersOf(Unwrap(ret)) = {3}
    /\ HiddenInRows(puzzle.grid) # {}

\* C19: consolidate_candidates returns an empty Vec exactly when no cell
\* without a value has exactly one candidate and no number is the candidate of
\* exactly one cell without a value of a block, a row or a column; the call
\* then leaves the value and the candidates of every cell as they were.
C19_EmptyMeansNothingToAssign ==
    [][ConsolidateCall =>
          Then(ConsolidateStart, LAMBDA start :
          Then(/\ NakedSingles(start) = {}
               /\ HiddenInBlocks(start) = {}
               /\ HiddenInRows(start) = {}
               /\ HiddenInColumns(start) = {}, LAMBDA nothing :
              /\ Unwrap(ret') = <<>> <=> nothing
              /\ nothing => puzzle'.grid = start))]_vars

\* C19 is reached: a call has returned an empty Vec on a grid that has cells
\* with candidates
C19_Witness ==
    /\ last_op = "consolidate_candidates"
    /\ ret = Some(<<>>)
    /\ \E r \in Idx : \E c \in Idx : CandidateSet(puzzle.grid[r][c]) # {}

\* the last cell of the grid, row by row, that has a candidate
Pivot(grid) ==
    LET cells == {p \in Idx \X Idx : CandidateSet(grid[p[1]][p[2]]) # {}}
    IN  CHOOSE p \in cells :
            \A q \in cells : q[1] * 9 + q[2] <= p[1] * 9 + p[2]

\* the k-th number of a set of numbers in descending order
RECURSIVE KthLargest(_, _)
KthLargest(S, k) ==
    LET m == CHOOSE x \in S : \A y \in S : y <= x
    IN  IF k = 1 THEN m ELSE KthLargest(S \ {m}, k - 1)

\* the puzzle that solve() makes of the clone of p with the k-th candidate, in
\* descending order, of the pivot of p for the value of the pivot
Guessed(p, k) ==
    LET cell == Pivot(p.grid)
        number == KthLargest(CandidateSet(p.grid[cell[1]][cell[2]]), k)
    IN  solve([p EXCEPT !.grid[cell[1]][cell[2]] =
                  [@ EXCEPT !.number = Some(number), !.candidates = NoCandidates]])

\* C20: solve_with_guesses takes for pivot the last cell, row by row, that has
\* a candidate and tries the candidates of that cell in descending order, one
\* at a time: the k-th guess of a call is the k-th candidate from the highest;
\* it is taken by the innermost call only, so after every call made for an
\* earlier guess has returned, and only while the call holds no Solved grid.
\* A guess that ends Solved becomes the result of the call, one that ends
\* Unsolved becomes the grid of a new call, one that ends IllDefined leaves
\* the result None.
C20_GuessOrder ==
    [][\A i \in 1..Len(stack) :
          i <= Len(stack') =>
              /\ stack'[i].tried \in {stack[i].tried, stack[i].tried + 1}
              /\ stack'[i].tried = stack[i].tried + 1 =>
                    /\ i = Len(stack)
                    /\ stack[i].result = None
                    /\ Then(Guessed(stack[i].given_puzzle, stack'[i].tried),
                            LAMBDA trial :
                          Then(status(trial.grid), LAMBDA st :
                              IF st = Solved
                              THEN /\ Len(stack') = i
                                   /\ stack'[i].result = Some(trial)
                              ELSE IF st = Unsolved
                              THEN /\ Len(stack') = i + 1
                                   /\ stack'[i].result = None
                                   /\ stack'[i + 1].given_puzzle = trial
                                   /\ stack'[i + 1].tried = 0
                              ELSE /\ Len(stack') = i
                                   /\ stack'[i].result = None))]_vars

\* C20 is reached: the second guess of a call, taken after its first guess
\* failed, has ended with a Solved grid
C20_Witness ==
    \E i \in 1..Len(stack) : stack[i].tried = 2 /\ IsSome(stack[i].result)

\* the sets of entries of the 9 Vecs that are several Vecs, no two the same
\* and none empty, each with fewer numbers than they hold together, that hold
\* together as many numbers as they are
DistinctFamilies(candidates) ==
    {F \in SUBSET (1..9) :
        LET held == UNION {RangeOf(candidates[i]) : i \in F}
        IN  /\ Cardinality(F) >= 2
            /\ Cardinality(held) = Cardinality(F)
            /\ \A i \in F : /\ candidates[i] # <<>>
                            /\ Len(candidates[i]) < Cardinality(held)
            /\ \A i \in F : \A j \in F : i # j => candidates[i] # candidates[j]}

---------------------------------------------------------------------------
(* C22: termination *)

\* the number of cells of a grid that have a number
Assigned(grid) ==
    Cardinality({p \in Idx \X Idx : IsSome(grid[p[1]][p[2]].number)})

\* the number of candidates of all the cells of a grid
Candidates(grid) ==
    Cardinality({q \in Idx \X Idx \X (1..9) :
                    q[3] \in CandidateSet(grid[q[1]][q[2]])})

\* no cell of `new` has a candidate that it has not in `old`
Within(new, old) ==
    \A r \in Idx : \A c \in Idx :
        CandidateSet(new[r][c]) \subseteq CandidateSet(old[r][c])

\* every round of the loop of assign_candidates from `grid` on only removes
\* candidates, and a round after which the loop goes on has removed one
RECURSIVE RoundsOnlyRemove(_)
RoundsOnlyRemove(grid) ==
    Then(reduce_candidates_with_sara_flex(grid), LAMBDA flex :
    Then(reduce_candidates_using_water_cannon(flex.grid), LAMBDA hit :
        /\ Within(flex.grid, grid)
        /\ Within(hit.grid, flex.grid)
        /\ \/ flex.reductions + hit.reductions = 0
           \/ /\ Candidates(hit.grid) < Candidates(grid)
              /\ RoundsOnlyRemove(hit.grid)))

\* the live calls of solve_with_guesses: each works on a grid with more cells
\* assigned than the grid of its caller, and they are no more than the cells
\* that the grid main called the first on left unresolved
DeeperIsFuller ==
    /\ \A i \in 2..Len(stack) :
           Assigned(stack[i].given_puzzle.grid)
               > Assigned(stack[i - 1].given_puzzle.grid)
    /\ Len(stack) <= 81 - Assigned(puzzle.grid)

\* a call of assign_candidates, of step, or an iteration of the loop of solve
StepTaken ==
    \/ pc = "test" /\ calls' = calls + 1 /\ last_op' \in {"assign_candidates", "step"}
    \/ pc \in {"main", "solve"} /\ last_op' = "solve"

\* what C22 says of one such call: the rounds of the two reductions only
\* remove candidates, and a step that returns a record has assigned a cell
\* that had no number, and has kept the numbers there were
StepProgress ==
    StepTaken =>
        /\ RoundsOnlyRemove(peer_candidates(puzzle.grid))
        /\ (last_op' # "assign_candidates"
                /\ Len(puzzle'.last_consolidation) > 0) =>
              /\ Assigned(puzzle'.grid) > Assigned(puzzle.grid)
              /\ Keeps(puzzle.grid, puzzle'.grid)

\* the guesses that the loop of a call of solve_with_guesses has yet to take
Remaining(call) == Len(call.guesses) - call.tried

\* the guesses yet to take of the live calls, from the outermost to the innermost
Variant(calls_) == [i \in 1..Len(calls_) |-> Remaining(calls_[i])]

\* the order of the variants: `a` is `b` cut short, or has the lesser number
\* where they first differ.  It is well-founded on sequences of numbers that
\* are no longer than the 81 cells of a grid.
LexLess(a, b) ==
    \/ Len(a) < Len(b) /\ a = SubSeq(b, 1, Len(a))
    \/ \E i \in 1..Len(a) :
           /\ i <= Len(b)
           /\ a[i] < b[i]
           /\ SubSeq(a, 1, i - 1) = SubSeq(b, 1, i - 1)

\* an iteration of the loop of solve() after which the loop goes on has
\* assigned a cell; an iteration of the loop of a call of solve_with_guesses,
\* and its return, lower the variant
LoopsProgress ==
    /\ (pc \in {"main", "solve"} /\ pc' = "solve") =>
           Assigned(puzzle'.grid) > Assigned(puzzle.grid)
    /\ (pc = "search" /\ stack' # stack) =>
           LexLess(Variant(stack'), Variant(stack))

\* C22: every call of assign_candidates, solve() and solve_with_guesses
\* terminates: the rounds of the elimination rules only remove candidates and
\* go on only after removing one, every step with a record assigns a cell
\* that had no number, the loop of solve() goes on only after such a step,
\* every call of solve_with_guesses works on a grid with more cells assigned
\* than its caller's so that the calls are no deeper than the unresolved
\* cells, and every iteration and return of the search lowers a well-founded
\* variant
C22_Terminates ==
    /\ []DeeperIsFuller
    /\ [][StepProgress]_vars
    /\ [][LoopsProgress]_vars

\* a call of solve_with_guesses made by a call that main made, on a grid with
\* the guess and what solve() deduced from it assigned
C22_Witness ==
    /\ pc = "search"
    /\ Len(stack) = 2
    /\ Assigned(stack[2].given_puzzle.grid)
           > Assigned(stack[1].given_puzzle.grid) + 1
    /\ Len(puzzle.last_consolidation) = 0

---------------------------------------------------------------------------
(* C23: soundness of the propagation *)

\* the most unresolved cells of a grid of which every completion is built
MaxOpen == 8

\* the cells of a grid that have no number, row by row
Unresolved(grid) ==
    SelectSeq(RowScan, LAMBDA p : ~IsSome(grid[p[1]][p[2]].number))

\* the grids that give every cell of `cells` a number of 1..9 that its row,
\* its column and its block do not hold yet, and leave the other cells alone
RECURSIVE Extensions(_, _)
Extensions(grid, cells) ==
    IF cells = <<>> THEN {grid}
    ELSE LET p == Head(cells)
         IN  UNION {Extensions(set_number(grid, p[1], p[2], n), Tail(cells)) :
                       n \in PeerFree(grid, p[1], p[2])}

\* the complete grids that extend the values of `grid` without a repeated
\* value: all of them for a grid with few unresolved cells, the grid of Base
\* for the others
Completions(grid) ==
    IF Len(Unresolved(grid)) <= MaxOpen
    THEN Extensions(grid, Unresolved(grid))
    ELSE {G \in {Completion} : Completes(G, grid)}

\* every cell that has no number in `grid` has, in `after`, the candidate
\* that each completion of `grid` gives it
Sound(grid, after) ==
    \A G \in Completions(grid) : \A p \in RangeOf(Unresolved(grid)) :
        Unwrap(G[p[1]][p[2]].number) \in CandidateSet(after[p[1]][p[2]])

\* C23: propagation is sound: for every grid whose values repeat in no row,
\* column or block and every complete grid G that extends them without a
\* repeated value, after assign_candidates every unresolved cell still has
\* G's value among its candidates
C23_PropagationSound ==
    [][(StepTaken /\ NoRepeat(puzzle.grid)) =>
          Then(assign_candidates(puzzle.grid), LAMBDA assigned :
              Sound(puzzle.grid, assigned))]_vars

---------------------------------------------------------------------------
(* C24: what solve() leaves for the search *)

\* the puzzle is as a step that assigned nothing leaves it: no record, the
\* candidates that assign_candidates gives its values, a cell without a
\* number, and two candidates or more for every such cell
Stalled(p) ==
    /\ p.last_consolidation = <<>>
    /\ p.grid = assign_candidates(p.grid)
    /\ Unresolved(p.grid) # <<>>
    /\ \A q \in RangeOf(Unresolved(p.grid)) :
           Cardinality(CandidateSet(p.grid[q[1]][q[2]])) >= 2

\* the call has found a pivot and has two guesses or more, all for the pivot
HasPivot(call) ==
    /\ \E q \in Idx \X Idx : CandidateSet(call.given_puzzle.grid[q[1]][q[2]]) # {}
    /\ Len(call.guesses) >= 2
    /\ \A k \in 1..Len(call.guesses) :
           <<call.guesses[k].row, call.guesses[k].column>>
               = Pivot(call.given_puzzle.grid)

\* C24: whenever solve() returns with status Unsolved the last step made no
\* assignment, the candidates are those of a fresh propagation and every
\* unresolved cell has two candidates or more; every call of
\* solve_with_guesses, from main or from its own recursion, is made on such a
\* puzzle, finds a pivot and has two guesses or more
C24_StalledBeforeGuessing ==
    /\ (last_op = "solve" /\ pc \in {"test", "solved"}
            /\ status(puzzle.grid) = Unsolved) => Stalled(puzzle)
    /\ \A i \in 1..Len(stack) :
           /\ status(stack[i].given_puzzle.grid) = Unsolved
           /\ Stalled(stack[i].given_puzzle)
           /\ HasPivot(stack[i])

\* solve() has returned Unsolved to main and then, for a guess, to the call of
\* solve_with_guesses that main made, which has called itself on that puzzle
C24_Witness ==
    /\ pc = "search"
    /\ status(puzzle.grid) = Unsolved
    /\ Len(stack) = 2
    /\ stack[2].tried = 0
    /\ status(stack[2].given_puzzle.grid) = Unsolved
    /\ Len(stack[2].guesses) >= 2

---------------------------------------------------------------------------
(* C25: what the search keeps of the grid it is called on *)

\* the guess of the iteration that the loop of a call has begun last
LastGuess(call) == call.guesses[Len(call.guesses) - call.tried + 1]

\* `grid` has the values of the grid that the call was made on, and the number
\* of the last guess of the call in the pivot of that grid
OnPath(call, grid) ==
    /\ Keeps(call.given_puzzle.grid, grid)
    /\ call.tried >= 1
    /\ LET guess == LastGuess(call)
       IN  /\ <<guess.row, guess.column>> = Pivot(call.given_puzzle.grid)
           /\ ~IsSome(call.given_puzzle.grid[guess.row][guess.column].number)
           /\ grid[guess.row][guess.column].number = Some(guess.number)

\* C25: a grid returned by solve_with_guesses has the value of the grid it was
\* called on in every cell that had one there, and the guessed value in the
\* pivot of every guess on the path that produced it: of the call that
\* returns it and of every caller that the call was made for
C25_ReturnedGridKeepsPath ==
    /\ \A i \in 1..Len(stack) :
           IsSome(stack[i].result) =>
               \A j \in 1..i : OnPath(stack[j], Unwrap(stack[i].result).grid)
    /\ IsSome(trial_puzzle) => Keeps(puzzle.grid, Unwrap(trial_puzzle).grid)

\* a call made for a guess of the call of main holds a grid to return: two
\* guesses are on its path, and the grid has more new values than those two
C25_Witness ==
    /\ pc = "search"
    /\ Len(stack) = 2
    /\ IsSome(stack[2].result)
    /\ Assigned(Unwrap(stack[2].result).grid) > Assigned(puzzle.grid) + 2

---------------------------------------------------------------------------
(* C26: the records of consolidate_candidates *)

\* the cell <<row, col>> of the grid that a record is about: the records of
\* the first two tiers count row and col from the origin of the block, those
\* of the last two from the origin of the grid
RecordCell(record) ==
    LET a == record[2]
    IN  IF TierOf(record) \in {1, 2}
        THEN <<(a.block \div 3) * 3 + a.row, (a.block % 3) * 3 + a.col>>
        ELSE <<a.row, a.col>>

\* a call of consolidate_candidates: on its own, in a step, in an iteration
\* of the loop of solve()
ConsolidateTaken ==
    \/ ConsolidateCall
    \/ pc \in {"main", "solve"} /\ last_op' = "solve"

\* the Vec that call returns
RecordsTaken == IF pc = "test" THEN Unwrap(ret') ELSE puzzle'.last_consolidation

\* C26: every record that consolidate_candidates returns identifies the cell
\* it assigned: row and col are within the block (0..2) for the first two
\* tiers and within the grid (0..8) for the last two, block is the number of
\* the block of the cell, (row / 3) * 3 + col / 3 of its place in the grid;
\* after the call the cell holds the number of the record and has no
\* candidates; the cells whose number the call has changed are those of the
\* records
C26_RecordsIdentifyCells ==
    [][ConsolidateTaken =>
          Then(RecordsTaken, LAMBDA records :
              /\ \A k \in 1..Len(records) :
                    LET a == records[k][2]
                        cell == RecordCell(records[k])
                    IN  /\ a.number \in 1..9
                        /\ a.block \in Idx
                        /\ IF TierOf(records[k]) \in {1, 2}
                           THEN a.row \in 0..2 /\ a.col \in 0..2
                           ELSE a.row \in Idx /\ a.col \in Idx
                        /\ a.block = (cell[1] \div 3) * 3 + cell[2] \div 3
                        /\ puzzle'.grid[cell[1]][cell[2]].number = Some(a.number)
                        /\ CandidateSet(puzzle'.grid[cell[1]][cell[2]]) = {}
              /\ {p \in Idx \X Idx : puzzle'.grid[p[1]][p[2]].number
                                          # puzzle.grid[p[1]][p[2]].number}
                    = {RecordCell(records[k]) : k \in 1..Len(records)})]_vars

\* a call has returned a record of the third or the fourth tier for a cell
\* that is not in a block of the diagonal, and the cell holds its number
C26_Witness ==
    /\ pc = "test"
    /\ last_op = "consolidate_candidates"
    /\ \E k \in 1..Len(Unwrap(ret)) :
           LET a == Unwrap(ret)[k][2]
           IN  /\ TierOf(Unwrap(ret)[k]) \in {3, 4}
               /\ a.row \div 3 # a.col \div 3
               /\ puzzle.grid[a.row][a.col].number = Some(a.number)

====
